---- MODULE Spec2Model ----
(***************************************************************************)
(* Model of bibtutils: the Pub/Sub trigger guard process_trigger           *)
(* (bibtutils/gcp/pubsub.py) together with the collaborators it calls:     *)
(* get_secret_by_uri (bibtutils/gcp/secrets.py), send_cf_fail_alert        *)
(* (bibtutils/slack/error.py) and send_message (bibtutils/slack/message.py)*)
(*                                                                         *)
(* Time is counted in whole seconds on a small axis.  A base64 text is a   *)
(* sequence of symbols: 0..63 are the sextets of the base64 alphabet, PAD  *)
(* is '=', JUNK is an ASCII character outside the alphabet and NONASCII a  *)
(* character outside ASCII.  Bytes are 0..255 and a Python str is the      *)
(* sequence of its code points.                                            *)
(***************************************************************************)
EXTENDS Integers, Sequences, FiniteSets, TLC

\* ------------------------------------------------------------------ bounds
MaxTime == 2
MaxTimeout == 1
MaxDataLen == 4

\* ------------------------------------------------------- Python values
\* Optional[str]: Python None versus a str (possibly the empty str).
None ==
  [some |-> FALSE, val |-> <<>>]

Some(s) ==
  [some |-> TRUE, val |-> s]

\* os.environ.get(name) of a variable that is not set.
Unset ==
  "None"

PAD == 64
JUNK == 65
NONASCII == 66

\* ------------------------------------------------------------ base64
\* binascii.a2b_base64 in its default non-strict mode, as base64.b64decode
\* calls it: characters outside the alphabet are skipped, a completed pad
\* sequence ends the parse, a dangling quad is an error.
RECURSIVE a2b_base64(_, _, _, _, _, _)
a2b_base64(data, i, quad_pos, leftchar, pads, bin) ==
  IF i > Len(data)
  THEN IF quad_pos # 0
       THEN [ok |-> FALSE, bytes |-> <<>>]
       ELSE [ok |-> TRUE, bytes |-> bin]
  ELSE LET this_ch == data[i] IN
       IF this_ch = PAD
       THEN IF quad_pos >= 2 /\ quad_pos + pads + 1 >= 4
            THEN [ok |-> TRUE, bytes |-> bin]
            ELSE a2b_base64(data, i + 1, quad_pos, leftchar,
                            IF quad_pos >= 2 THEN pads + 1 ELSE pads, bin)
       ELSE IF this_ch >= 64
       THEN a2b_base64(data, i + 1, quad_pos, leftchar, pads, bin)
       ELSE CASE quad_pos = 0 ->
                   a2b_base64(data, i + 1, 1, this_ch, 0, bin)
              [] quad_pos = 1 ->
                   a2b_base64(data, i + 1, 2, this_ch % 16, 0,
                              Append(bin, leftchar * 4 + (this_ch \div 16)))
              [] quad_pos = 2 ->
                   a2b_base64(data, i + 1, 3, this_ch % 4, 0,
                              Append(bin, leftchar * 16 + (this_ch \div 4)))
              [] quad_pos = 3 ->
                   a2b_base64(data, i + 1, 0, 0, 0,
                              Append(bin, leftchar * 64 + this_ch))

\* base64.b64decode(s): a str with a non-ASCII character is rejected before
\* the decoding starts.
b64decode(data) ==
  IF \E i \in 1..Len(data) : data[i] = NONASCII
  THEN [ok |-> FALSE, bytes |-> <<>>]
  ELSE a2b_base64(data, 1, 0, 0, 0, <<>>)

\* ------------------------------------------------------------- UTF-8
IsCont(b) ==
  b >= 128 /\ b <= 191

\* bytes.decode("utf-8") with the default strict error handler.
RECURSIVE utf8_decode(_, _, _)
utf8_decode(bs, i, out) ==
  IF i > Len(bs)
  THEN [ok |-> TRUE, val |-> out]
  ELSE LET b0 == bs[i]
           n == Len(bs) - i
       IN
       IF b0 < 128
       THEN utf8_decode(bs, i + 1, Append(out, b0))
       ELSE IF b0 >= 194 /\ b0 <= 223 /\ n >= 1 /\ IsCont(bs[i + 1])
       THEN utf8_decode(bs, i + 2,
                        Append(out, (b0 - 192) * 64 + (bs[i + 1] - 128)))
       ELSE IF /\ b0 >= 224 /\ b0 <= 239 /\ n >= 2
               /\ IsCont(bs[i + 1]) /\ IsCont(bs[i + 2])
               /\ (b0 = 224 => bs[i + 1] >= 160)
               /\ (b0 = 237 => bs[i + 1] <= 159)
       THEN utf8_decode(bs, i + 3,
                        Append(out, (b0 - 224) * 4096 + (bs[i + 1] - 128) * 64
                                    + (bs[i + 2] - 128)))
       ELSE IF /\ b0 >= 240 /\ b0 <= 244 /\ n >= 3
               /\ IsCont(bs[i + 1]) /\ IsCont(bs[i + 2]) /\ IsCont(bs[i + 3])
               /\ (b0 = 240 => bs[i + 1] >= 144)
               /\ (b0 = 244 => bs[i + 1] <= 143)
       THEN utf8_decode(bs, i + 4,
                        Append(out, (b0 - 240) * 262144
                                    + (bs[i + 1] - 128) * 4096
                                    + (bs[i + 2] - 128) * 64
                                    + (bs[i + 3] - 128)))
       ELSE [ok |-> FALSE, val |-> <<>>]

\* Mutation: the bytes are decoded as latin-1, one character per byte.
DecodePayloadLatin1(data) ==
  LET raw == b64decode(data) IN
  IF ~raw.ok
  THEN [ok |-> FALSE, exc |-> "binascii.Error", val |-> <<>>]
  ELSE [ok |-> TRUE, exc |-> "", val |-> raw.bytes]

\* base64.b64decode(event["data"]).decode("utf-8")
DecodePayload(data) ==
  LET raw == b64decode(data) IN
  IF ~raw.ok
  THEN [ok |-> FALSE, exc |-> "binascii.Error", val |-> <<>>]
  ELSE LET txt == utf8_decode(raw.bytes, 1, <<>>) IN
       IF ~txt.ok
       THEN [ok |-> FALSE, exc |-> "UnicodeDecodeError", val |-> <<>>]
       ELSE [ok |-> TRUE, exc |-> "", val |-> txt.val]

\* ------------------------------------------------------- timestamps
\* UTC offsets (in seconds of the model's axis) a timestamp string may name.
Offsets ==
  {0, 1}

\* context.timestamp: a string that names a wall-clock reading and a UTC
\* offset ("aware"), a wall-clock reading without offset ("naive"), or no
\* date at all ("malformed").
Timestamps ==
  [form : {"aware"}, wall : 0..MaxTime, offset : Offsets]
    \cup {[form |-> "naive", wall |-> 0, offset |-> 0],
          [form |-> "malformed", wall |-> 0, offset |-> 0]}

\* A datetime object: wall-clock fields plus tzinfo (aware) or none.
NoDatetime ==
  [aware |-> FALSE, wall |-> 0, offset |-> 0]

\* dateutil.parser.parse(context.timestamp)
parse(ts) ==
  IF ts.form = "malformed"
  THEN [ok |-> FALSE, dt |-> NoDatetime]
  ELSE [ok |-> TRUE,
        dt |-> [aware |-> ts.form = "aware", wall |-> ts.wall,
                offset |-> ts.offset]]

\* The absolute instant (seconds, UTC) an aware datetime stands for.
Instant(dt) ==
  dt.wall - dt.offset

\* datetime.now(timezone.utc) when the system clock reads t.
UtcNow(t) ==
  [aware |-> TRUE, wall |-> t, offset |-> 0]

\* Mutation: the wall-clock fields are subtracted, the offsets dropped.
total_seconds_wall(a, b) ==
  a.wall - b.wall

\* Mutation: a negative difference is clamped to zero.
total_seconds_clamped(a, b) ==
  IF Instant(a) - Instant(b) < 0 THEN 0 ELSE Instant(a) - Instant(b)

\* Mutation: the operands are swapped, event time minus current time.
total_seconds_reversed(a, b) ==
  Instant(b) - Instant(a)

\* (a - b).total_seconds() for two aware datetimes.
total_seconds(a, b) ==
  Instant(a) - Instant(b)

\* Mutation: the boundary counts as exceeded.
TimeoutExceededGe(lapsed_secs, timeout) ==
  lapsed_secs >= timeout

\* Mutation: the magnitude of the lapsed time is compared.
TimeoutExceededAbs(lapsed_secs, timeout) ==
  (IF lapsed_secs < 0 THEN 0 - lapsed_secs ELSE lapsed_secs) > timeout

\* lapsed.total_seconds() > timeout_secs
TimeoutExceeded(lapsed_secs, timeout) ==
  lapsed_secs > timeout

\* lapsed.total_seconds() - timeout_secs, as the messages report it
ExceededBy(lapsed_secs, timeout) ==
  lapsed_secs - timeout

\* datetime.strftime('%Y%m%dT%H%M%SZ'): the wall-clock fields of the
\* datetime followed by a literal Z; the offset is not consulted.
strftime(dt) ==
  dt.wall

\* ------------------------------------------------------- environment
WebhookEnvar ==
  "FAIL_ALERT_WEBHOOK_SECRET_URI"

EnvNames ==
  {WebhookEnvar, "_GOOGLE_PROJECT", "K_SERVICE", "FUNCTION_NAME"}

SecretUri ==
  "projects/host/secrets/hook/versions/latest"

HookUrl ==
  "https://hooks.slack.com/services/A/B/C"

EnvValues(name) ==
  CASE name = WebhookEnvar -> {Unset, SecretUri}
    [] name = "_GOOGLE_PROJECT" -> {Unset, "my-project"}
    [] name = "K_SERVICE" -> {Unset, "my-function"}
    [] name = "FUNCTION_NAME" -> {Unset, "my-function-py37"}

\* What Secret Manager holds under SecretUri: nothing, or a text.
NotFound ==
  "<not found>"

SecretTexts ==
  {"{\"hook\": \"https://hooks.slack.com/services/A/B/C\"}",
   "{\"url\": \"https://hooks.slack.com/services/A/B/C\"}",
   "not json"}

\* json.loads(webhook) on the texts above.
json_loads(text) ==
  CASE text = "{\"hook\": \"https://hooks.slack.com/services/A/B/C\"}" ->
         [ok |-> TRUE, has_hook |-> TRUE, hook |-> HookUrl]
    [] text = "{\"url\": \"https://hooks.slack.com/services/A/B/C\"}" ->
         [ok |-> TRUE, has_hook |-> FALSE, hook |-> ""]
    [] OTHER ->
         [ok |-> FALSE, has_hook |-> FALSE, hook |-> ""]

NoWebhook ==
  [ok |-> FALSE, has_hook |-> FALSE, hook |-> ""]

\* What requests.post(...) followed by raise_for_status() can do.
HttpResults ==
  {"200", "HTTPError", "ConnectionError"}

\* os.environ.get(name)
environ_get(env, name) ==
  IF name \in DOMAIN env THEN env[name] ELSE Unset

\* _get_cfname()
get_cfname(env) ==
  IF environ_get(env, "K_SERVICE") # Unset
  THEN env["K_SERVICE"]
  ELSE IF environ_get(env, "FUNCTION_NAME") # Unset
       THEN env["FUNCTION_NAME"]
       ELSE "UNKNOWN (running locally?)"

\* The request send_cf_fail_alert hands to send_message and send_message
\* posts: the webhook, the log query's function name, time range and
\* project, and the attachment colour.
FailAlert(currenttime, eventtime, hook, env) ==
  [webhook |-> hook,
   cfname |-> get_cfname(env),
   etimestamp |-> strftime(eventtime),
   ctimestamp |-> strftime(currenttime),
   project |-> environ_get(env, "_GOOGLE_PROJECT"),
   color |-> "#ff0000"]

\* ----------------------------------------------------------- events
\* The triggering event: not passed (None), or a dict with or without the
\* key 'data'.
NoEvent ==
  [passed |-> FALSE, has_data |-> FALSE, data |-> <<>>]

EventWithoutData ==
  [passed |-> TRUE, has_data |-> FALSE, data |-> <<>>]

EventWith(d) ==
  [passed |-> TRUE, has_data |-> TRUE, data |-> d]

\* "aGk=" is base64 of "hi"; "a" has a dangling quad; "kG==" decodes to
\* the byte 0x90, which is not UTF-8; the last has a non-ASCII character.
SampleEvents ==
  {NoEvent, EventWithoutData, EventWith(<<>>), EventWith(<<26, 6, 36, PAD>>),
   EventWith(<<26>>), EventWith(<<36, 6, PAD, PAD>>), EventWith(<<NONASCII>>)}

\* ---------------------------------------------------------- outcomes
NoOutcome ==
  [kind |-> "none", exc |-> "", value |-> None, threshold |-> 0,
   exceeded |-> 0]

Return(v) ==
  [kind |-> "return", exc |-> "", value |-> v, threshold |-> 0,
   exceeded |-> 0]

Raise(e) ==
  [kind |-> "raise", exc |-> e, value |-> None, threshold |-> 0,
   exceeded |-> 0]

\* raise TimeoutError(f"Threshold of {timeout_secs} seconds exceeded by
\* {lapsed.total_seconds()-timeout_secs} seconds. Exiting.")
RaiseTimeoutError(timeout, lapsed_secs) ==
  [kind |-> "raise", exc |-> "TimeoutError", value |-> None,
   threshold |-> timeout, exceeded |-> ExceededBy(lapsed_secs, timeout)]

\* event != None and "data" in event
HasPayload(ev) ==
  ev.passed /\ ev.has_data

\* Mutation: a missing payload is read as the empty text,
\* event.get("data", "").
PayloadResultEmptyDefault(ev) ==
  IF ev.passed
  THEN LET d == DecodePayload(IF ev.has_data THEN ev.data ELSE <<>>) IN
       IF d.ok THEN Return(Some(d.val)) ELSE Raise(d.exc)
  ELSE Return(None)

\* Lines 198-201 of process_trigger: the value returned, or the exception
\* the decoding raises.
PayloadResult(ev) ==
  IF HasPayload(ev)
  THEN LET d == DecodePayload(ev.data) IN
       IF d.ok THEN Return(Some(d.val)) ELSE Raise(d.exc)
  ELSE Return(None)

\* ------------------------------------------------------------- state
VARIABLES
  clock,          \* the system clock (UTC seconds) datetime.now reads
  environ,        \* os.environ
  secret,         \* what Secret Manager holds under SecretUri
  pc,             \* position of the running process_trigger call
  context,        \* context.timestamp of the triggering event
  event,          \* the event argument
  timeout_secs,   \* the timeout_secs argument
  notify_slack,   \* the notify_slack argument
  utctime,        \* local utctime (line 163)
  eventtime,      \* local eventtime (line 164)
  lapsed,         \* local lapsed, as total_seconds()
  lapsed_at,      \* the clock reading line 166 computed lapsed from
  webhook,        \* local webhook (lines 175-178)
  fetches,        \* calls of get_secret_by_uri made by this call
  posted,         \* requests this call handed to requests.post
  errors,         \* _LOGGER.error records written by this call
  outcome,        \* how the call ended: value returned or exception
  attempt,        \* the previous delivery of the same event, if any
  peer,           \* a second process_trigger call in flight, suspended
  gcs,            \* Cloud Storage: the bucket and the blob in it
  bq,             \* BigQuery: the tables of the dataset and the load jobs
  call,           \* the running library call
  sm,             \* Secret Manager: the payload of each secret's latest version
  topics,         \* Pub/Sub: the messages published, by topic
  http            \* Slack: the requests send_message handed to requests.post

vars ==
  <<clock, environ, secret, pc, context, event, timeout_secs, notify_slack,
    utctime, eventtime, lapsed, lapsed_at, webhook, fetches, posted, errors,
    outcome, attempt, peer, gcs, bq, call, sm, topics, http>>

\* Secret Manager, Pub/Sub and the Slack webhook as the library's own
\* calls see them.
services ==
  <<sm, topics, http>>

\* The storage and BigQuery side, which process_trigger never touches.
cloud ==
  <<gcs, bq, call, services>>

\* The process_trigger side, which no storage or BigQuery call touches.
trigger ==
  <<clock, environ, secret, pc, context, event, timeout_secs, notify_slack,
    utctime, eventtime, lapsed, lapsed_at, webhook, fetches, posted, errors,
    outcome, attempt, peer>>

\* What an evaluation reads but is not handed as an argument.
world ==
  <<environ, secret>>

args ==
  <<context, event, timeout_secs, notify_slack>>

locals ==
  <<utctime, eventtime, lapsed, lapsed_at, webhook, fetches, posted, errors,
    outcome>>

NoAttempt ==
  [has |-> FALSE, at |-> 0, outcome |-> NoOutcome]

Timeouts ==
  (0 - 1)..MaxTimeout

FreshLocals ==
  /\ utctime' = NoDatetime
  /\ eventtime' = NoDatetime
  /\ lapsed' = 0
  /\ lapsed_at' = 0
  /\ webhook' = NoWebhook
  /\ fetches' = 0
  /\ posted' = <<>>
  /\ errors' = <<>>
  /\ outcome' = NoOutcome

\* One process_trigger call: its position, arguments and locals.
Frame ==
  [pc |-> pc, context |-> context, event |-> event,
   timeout_secs |-> timeout_secs, notify_slack |-> notify_slack,
   utctime |-> utctime, eventtime |-> eventtime, lapsed |-> lapsed,
   lapsed_at |-> lapsed_at, webhook |-> webhook, fetches |-> fetches,
   posted |-> posted, errors |-> errors, outcome |-> outcome,
   attempt |-> attempt]

IdleFrame ==
  [pc |-> "idle", context |-> [form |-> "aware", wall |-> 0, offset |-> 0],
   event |-> NoEvent, timeout_secs |-> 0, notify_slack |-> FALSE,
   utctime |-> NoDatetime, eventtime |-> NoDatetime, lapsed |-> 0,
   lapsed_at |-> 0, webhook |-> NoWebhook, fetches |-> 0, posted |-> <<>>,
   errors |-> <<>>, outcome |-> NoOutcome, attempt |-> NoAttempt]

\* A blob that is not in the bucket.
NoBlob ==
  [has |-> FALSE, text |-> <<>>]

\* No bucket, no tables, no library call running.
NoGcs ==
  [bucket |-> FALSE, blob |-> NoBlob]

NoBq ==
  [tables |-> <<>>]

NoCall ==
  [op |-> "none"]

\* No secret, no message published, no request posted.
NoServices ==
  /\ sm = <<>>
  /\ topics = <<>>
  /\ http = <<>>

InitTrigger(envs, secrets) ==
  /\ clock = 0
  /\ environ \in envs
  /\ secret \in secrets
  /\ pc = "idle"
  /\ context = [form |-> "aware", wall |-> 0, offset |-> 0]
  /\ event = NoEvent
  /\ timeout_secs = 0
  /\ notify_slack = FALSE
  /\ utctime = NoDatetime
  /\ eventtime = NoDatetime
  /\ lapsed = 0
  /\ lapsed_at = 0
  /\ webhook = NoWebhook
  /\ fetches = 0
  /\ posted = <<>>
  /\ errors = <<>>
  /\ outcome = NoOutcome
  /\ attempt = NoAttempt
  /\ peer = IdleFrame

\* A deployment that uses process_trigger and no storage or BigQuery call.
InitWorld(envs, secrets) ==
  /\ InitTrigger(envs, secrets)
  /\ gcs = NoGcs
  /\ bq = NoBq
  /\ call = NoCall
  /\ NoServices

DeployedEnviron ==
  [n \in EnvNames |->
     CASE n = WebhookEnvar -> SecretUri
       [] n = "_GOOGLE_PROJECT" -> "my-project"
       [] n = "K_SERVICE" -> "my-function"
       [] OTHER -> Unset]

Init ==
  InitWorld({DeployedEnviron}, SecretTexts \cup {NotFound})

\* ------------------------------------------------------- environment
\* The system clock advances.
Tick ==
  /\ clock < MaxTime
  /\ clock' = clock + 1
  /\ UNCHANGED <<world, pc, args, locals, attempt>>
  /\ UNCHANGED <<peer, cloud>>

\* The deployment's environment variables (those in names) are set or
\* cleared between calls.
SetEnviron(names) ==
  /\ pc = "idle"
  /\ \E n \in names : \E v \in EnvValues(n) :
       /\ v # environ[n]
       /\ environ' = [environ EXCEPT ![n] = v]
  /\ UNCHANGED <<clock, secret, pc, args, locals, attempt>>
  /\ UNCHANGED <<peer, cloud>>

\* The secret is created, replaced or destroyed in Secret Manager.
SetSecret ==
  /\ \E t \in SecretTexts \cup {NotFound} :
       /\ t # secret
       /\ secret' = t
  /\ UNCHANGED <<clock, environ, pc, args, locals, attempt>>
  /\ UNCHANGED <<peer, cloud>>

\* ---------------------------------------------------- process_trigger
\* The runtime delivers an event for the first time and the function calls
\* process_trigger(context, event, timeout_secs, notify_slack).
Invoke(timestamps, events, timeouts, notifies) ==
  /\ pc = "idle"
  /\ context' \in timestamps
  /\ event' \in events
  /\ timeout_secs' \in timeouts
  /\ notify_slack' \in notifies
  /\ pc' = "L163"
  /\ attempt' = NoAttempt
  /\ FreshLocals
  /\ UNCHANGED <<clock, world>>
  /\ UNCHANGED <<peer, cloud>>

\* Mutation: a redelivery is stamped with its own delivery time.
RetryFreshTimestamp ==
  /\ pc = "done"
  /\ pc' = "L163"
  /\ context' = [context EXCEPT !.wall = clock, !.offset = 0]
  /\ attempt' = [has |-> TRUE, at |-> lapsed_at, outcome |-> outcome]
  /\ FreshLocals
  /\ UNCHANGED <<clock, world, event, timeout_secs, notify_slack>>
  /\ UNCHANGED <<peer, cloud>>

\* The runtime redelivers the same event (retry on failure): the same
\* context.timestamp and data, the same function and configuration.
Retry ==
  /\ pc = "done"
  /\ pc' = "L163"
  /\ attempt' = [has |-> TRUE, at |-> lapsed_at, outcome |-> outcome]
  /\ FreshLocals
  /\ UNCHANGED <<clock, world, args>>
  /\ UNCHANGED <<peer, cloud>>

\* The call has ended and the runtime drops the event: the function
\* instance is idle again and keeps nothing of the call.
Finish ==
  /\ pc = "done"
  /\ pc' = "idle"
  /\ context' = [form |-> "aware", wall |-> 0, offset |-> 0]
  /\ event' = NoEvent
  /\ timeout_secs' = 0
  /\ notify_slack' = FALSE
  /\ attempt' = NoAttempt
  /\ FreshLocals
  /\ UNCHANGED <<clock, world>>
  /\ UNCHANGED <<peer, cloud>>

\* line 163: utctime = datetime.now(timezone.utc)
ReadUtctime ==
  /\ pc = "L163"
  /\ utctime' = UtcNow(clock)
  /\ pc' = "L164"
  /\ UNCHANGED <<clock, world, args, eventtime, lapsed, lapsed_at, webhook,
                 fetches, posted, errors, outcome, attempt>>
  /\ UNCHANGED <<peer, cloud>>

\* lines 164-165: eventtime = parse(context.timestamp);
\* lapsed = utctime - eventtime.  parse raises on a string that is no date;
\* the subtraction raises TypeError on a datetime without tzinfo.
ParseEventtime ==
  /\ pc = "L164"
  /\ LET r == parse(context) IN
       IF ~r.ok
       THEN /\ outcome' = Raise("ParserError")
            /\ pc' = "done"
            /\ UNCHANGED <<eventtime, lapsed>>
       ELSE /\ eventtime' = r.dt
            /\ IF ~r.dt.aware
               THEN /\ outcome' = Raise("TypeError")
                    /\ pc' = "done"
                    /\ UNCHANGED lapsed
               ELSE /\ lapsed' = total_seconds(utctime, r.dt)
                    /\ pc' = "L166"
                    /\ UNCHANGED outcome
  /\ UNCHANGED <<clock, world, args, utctime, lapsed_at, webhook, fetches,
                 posted, errors, attempt>>
  /\ UNCHANGED <<peer, cloud>>

\* Mutation: lapsed is a module-level global that every call in flight
\* shares.
RecomputeLapsedGlobal ==
  /\ pc = "L166"
  /\ lapsed' = total_seconds(UtcNow(clock), parse(context).dt)
  /\ lapsed_at' = clock
  /\ pc' = "L168"
  /\ peer' = [peer EXCEPT !.lapsed = lapsed']
  /\ UNCHANGED <<clock, world, args, utctime, eventtime, webhook, fetches,
                 posted, errors, outcome, attempt>>
  /\ UNCHANGED cloud

\* line 166: lapsed = datetime.now(timezone.utc) - parse(context.timestamp)
RecomputeLapsed ==
  /\ pc = "L166"
  /\ lapsed' = total_seconds(UtcNow(clock), parse(context).dt)
  /\ lapsed_at' = clock
  /\ pc' = "L168"
  /\ UNCHANGED <<clock, world, args, utctime, eventtime, webhook, fetches,
                 posted, errors, outcome, attempt>>
  /\ UNCHANGED <<peer, cloud>>

\* Mutation: the notify_slack test is dropped, every timeout notifies.
CheckTimeoutAlwaysNotify ==
  /\ pc = "L168"
  /\ pc' = IF TimeoutExceeded(lapsed, timeout_secs) THEN "L175" ELSE "L198"
  /\ UNCHANGED <<clock, world, args, locals, attempt>>
  /\ UNCHANGED <<peer, cloud>>

\* lines 168 and 173: the timeout decision and the notify_slack test
CheckTimeout ==
  /\ pc = "L168"
  /\ pc' = IF TimeoutExceeded(lapsed, timeout_secs)
           THEN IF notify_slack THEN "L175" ELSE "L193"
           ELSE "L198"
  /\ UNCHANGED <<clock, world, args, locals, attempt>>
  /\ UNCHANGED <<peer, cloud>>

\* Mutation: no outer except, a failed access reaches the caller.
GetSecretUncaught ==
  /\ pc = "L175"
  /\ fetches' = fetches + 1
  /\ IF environ_get(environ, WebhookEnvar) = SecretUri /\ secret # NotFound
     THEN /\ pc' = "L178"
          /\ UNCHANGED outcome
     ELSE /\ pc' = "done"
          /\ outcome' = Raise("NotFound")
  /\ UNCHANGED <<clock, world, args, utctime, eventtime, lapsed, lapsed_at,
                 webhook, posted, errors, attempt>>
  /\ UNCHANGED <<peer, cloud>>

\* lines 175-177: webhook = get_secret_by_uri(os.environ.get(envar)).
\* The access fails when the variable is unset or the secret is missing;
\* the outer except logs it and falls through to the raise.
GetSecret ==
  /\ pc = "L175"
  /\ fetches' = fetches + 1
  /\ IF environ_get(environ, WebhookEnvar) = SecretUri /\ secret # NotFound
     THEN /\ pc' = "L178"
          /\ UNCHANGED errors
     ELSE /\ pc' = "L193"
          /\ errors' = Append(errors, "Could not get the Slack alert webhook")
  /\ UNCHANGED <<clock, world, args, utctime, eventtime, lapsed, lapsed_at,
                 webhook, posted, outcome, attempt>>
  /\ UNCHANGED <<peer, cloud>>

\* Mutation: no outer except, a text that is not JSON reaches the caller.
LoadWebhookUncaught ==
  /\ pc = "L178"
  /\ LET w == json_loads(secret) IN
       IF w.ok
       THEN /\ webhook' = w
            /\ pc' = "L180"
            /\ UNCHANGED outcome
       ELSE /\ pc' = "done"
            /\ outcome' = Raise("JSONDecodeError")
            /\ UNCHANGED webhook
  /\ UNCHANGED <<clock, world, args, utctime, eventtime, lapsed, lapsed_at,
                 fetches, posted, errors, attempt>>
  /\ UNCHANGED <<peer, cloud>>

\* line 178: webhook = json.loads(webhook); a text that is not JSON is
\* caught by the outer except.
LoadWebhook ==
  /\ pc = "L178"
  /\ LET w == json_loads(secret) IN
       IF w.ok
       THEN /\ webhook' = w
            /\ pc' = "L180"
            /\ UNCHANGED errors
       ELSE /\ pc' = "L193"
            /\ errors' = Append(errors, "Could not get the Slack alert webhook")
            /\ UNCHANGED webhook
  /\ UNCHANGED <<clock, world, args, utctime, eventtime, lapsed, lapsed_at,
                 fetches, posted, outcome, attempt>>
  /\ UNCHANGED <<peer, cloud>>

\* Mutation: no inner except, a failed post reaches the caller.
SendAlertUncaught ==
  /\ pc = "L180"
  /\ IF ~webhook.has_hook
     THEN /\ errors' = Append(errors, "Could not send fail alert to Slack")
          /\ pc' = "L193"
          /\ UNCHANGED <<posted, outcome>>
     ELSE \E r \in HttpResults :
            /\ posted' = Append(posted,
                                FailAlert(utctime, eventtime, webhook.hook,
                                          environ))
            /\ errors' = IF r = "200" THEN errors
                         ELSE Append(errors,
                                     "Could not send fail alert to Slack")
            /\ pc' = IF r = "200" THEN "L193" ELSE "done"
            /\ outcome' = IF r = "200" THEN outcome ELSE Raise(r)
  /\ UNCHANGED <<clock, world, args, utctime, eventtime, lapsed, lapsed_at,
                 webhook, fetches, attempt>>
  /\ UNCHANGED <<peer, cloud>>

\* Mutation: a failed post is tried a second time.
SendAlertRetries ==
  /\ pc = "L180"
  /\ IF ~webhook.has_hook
     THEN /\ errors' = Append(errors, "Could not send fail alert to Slack")
          /\ UNCHANGED posted
     ELSE \E r \in HttpResults :
            LET alert == FailAlert(utctime, eventtime, webhook.hook, environ)
            IN  /\ posted' = IF r = "200" THEN Append(posted, alert)
                              ELSE Append(Append(posted, alert), alert)
                /\ errors' = IF r = "200" THEN errors
                             ELSE Append(errors,
                                         "Could not send fail alert to Slack")
  /\ pc' = "L193"
  /\ UNCHANGED <<clock, world, args, utctime, eventtime, lapsed, lapsed_at,
                 webhook, fetches, outcome, attempt>>
  /\ UNCHANGED <<peer, cloud>>

\* lines 179-185: send_cf_fail_alert(utctime, eventtime, webhook["hook"]),
\* which builds the alert and calls send_message, which posts it and
\* raises on a failed post; the inner except logs any exception.
SendAlert ==
  /\ pc = "L180"
  /\ IF ~webhook.has_hook
     THEN /\ errors' = Append(errors, "Could not send fail alert to Slack")
          /\ UNCHANGED posted
     ELSE \E r \in HttpResults :
            /\ posted' = Append(posted,
                                FailAlert(utctime, eventtime, webhook.hook,
                                          environ))
            /\ errors' = IF r = "200" THEN errors
                         ELSE Append(errors,
                                     "Could not send fail alert to Slack")
  /\ pc' = "L193"
  /\ UNCHANGED <<clock, world, args, utctime, eventtime, lapsed, lapsed_at,
                 webhook, fetches, outcome, attempt>>
  /\ UNCHANGED <<peer, cloud>>

\* Mutation: the timeout is reported by returning None.
RaiseTimeoutReturns ==
  /\ pc = "L193"
  /\ outcome' = Return(None)
  /\ pc' = "done"
  /\ UNCHANGED <<clock, world, args, utctime, eventtime, lapsed, lapsed_at,
                 webhook, fetches, posted, errors, attempt>>
  /\ UNCHANGED <<peer, cloud>>

\* lines 193-196: raise TimeoutError(...)
RaiseTimeout ==
  /\ pc = "L193"
  /\ outcome' = RaiseTimeoutError(timeout_secs, lapsed)
  /\ pc' = "done"
  /\ UNCHANGED <<clock, world, args, utctime, eventtime, lapsed, lapsed_at,
                 webhook, fetches, posted, errors, attempt>>
  /\ UNCHANGED <<peer, cloud>>

\* lines 198-201: return the decoded payload, or None
ReturnPayload ==
  /\ pc = "L198"
  /\ outcome' = PayloadResult(event)
  /\ pc' = "done"
  /\ UNCHANGED <<clock, world, args, utctime, eventtime, lapsed, lapsed_at,
                 webhook, fetches, posted, errors, attempt>>
  /\ UNCHANGED <<peer, cloud>>

InvokeSample ==
  Invoke(Timestamps, SampleEvents, Timeouts, BOOLEAN)

SetWebhookEnvar ==
  SetEnviron({WebhookEnvar})

Next ==
  \/ Tick
  \/ SetWebhookEnvar
  \/ SetSecret
  \/ InvokeSample
  \/ Retry
  \/ Finish
  \/ ReadUtctime
  \/ ParseEventtime
  \/ RecomputeLapsed
  \/ CheckTimeout
  \/ GetSecret
  \/ LoadWebhook
  \/ SendAlert
  \/ RaiseTimeout
  \/ ReturnPayload

Spec ==
  Init /\ [][Next]_vars

\* ------------------------------------------------ payload specification
\* str.encode("utf-8"), as send_pubsub encodes a payload it publishes.
RECURSIVE utf8_encode(_)
utf8_encode(cps) ==
  IF cps = <<>>
  THEN <<>>
  ELSE LET c == Head(cps)
           bs == IF c < 128
                 THEN <<c>>
                 ELSE IF c < 2048
                 THEN <<192 + (c \div 64), 128 + (c % 64)>>
                 ELSE IF c < 65536
                 THEN <<224 + (c \div 4096), 128 + ((c \div 64) % 64),
                        128 + (c % 64)>>
                 ELSE <<240 + (c \div 262144), 128 + ((c \div 4096) % 64),
                        128 + ((c \div 64) % 64), 128 + (c % 64)>>
       IN bs \o utf8_encode(Tail(cps))

\* The base64 text Pub/Sub puts in event['data'] for the message bytes bs.
RECURSIVE b64encode(_)
b64encode(bs) ==
  IF bs = <<>>
  THEN <<>>
  ELSE IF Len(bs) = 1
  THEN <<bs[1] \div 4, (bs[1] % 4) * 16, PAD, PAD>>
  ELSE IF Len(bs) = 2
  THEN <<bs[1] \div 4, (bs[1] % 4) * 16 + (bs[2] \div 16),
         (bs[2] % 16) * 4, PAD>>
  ELSE <<bs[1] \div 4, (bs[1] % 4) * 16 + (bs[2] \div 16),
         (bs[2] % 16) * 4 + (bs[3] \div 64), bs[3] % 64>>
         \o b64encode(SubSeq(bs, 4, Len(bs)))

\* The characters payload texts are drawn from: 'G', 'a', 'k', 'w', '6',
\* '=' and a character outside the alphabet.
PayloadSymbols ==
  {6, 26, 36, 48, 58, PAD, JUNK}

PayloadTexts ==
  UNION {[1..n -> PayloadSymbols] : n \in 0..MaxDataLen}

PayloadEvents ==
  {NoEvent, EventWithoutData} \cup {EventWith(d) : d \in PayloadTexts}

\* "", "hi" and "é"
SampleStrings ==
  {<<>>, <<104, 105>>, <<233>>}

InitPayload ==
  InitWorld({DeployedEnviron},
            {"{\"hook\": \"https://hooks.slack.com/services/A/B/C\"}"})

InvokePayload ==
  Invoke({[form |-> "aware", wall |-> 0, offset |-> 0]}, PayloadEvents,
         {0}, {TRUE})

NextPayload ==
  \/ Tick
  \/ InvokePayload
  \/ Finish
  \/ ReadUtctime
  \/ ParseEventtime
  \/ RecomputeLapsed
  \/ CheckTimeout
  \/ GetSecret
  \/ LoadWebhook
  \/ SendAlert
  \/ RaiseTimeout
  \/ ReturnPayload

SpecPayload ==
  InitPayload /\ [][NextPayload]_vars

\* -------------------------------------------------- retry specification
\* One event that the runtime keeps redelivering while the clock advances.
\* The clock runs far enough for any timeout to be passed from any
\* trigger timestamp.
ClockHorizon ==
  MaxTime + MaxTimeout + 1

TickRetry ==
  /\ clock < ClockHorizon
  /\ clock' = clock + 1
  /\ UNCHANGED <<world, pc, args, locals, attempt>>
  /\ UNCHANGED <<peer, cloud>>

InitRetry ==
  InitWorld({DeployedEnviron},
            {"{\"hook\": \"https://hooks.slack.com/services/A/B/C\"}",
             NotFound})

InvokeRetry ==
  Invoke(Timestamps, {NoEvent}, Timeouts, BOOLEAN)

\* The statements of process_trigger, one of which is next in a call.
Steps ==
  \/ ReadUtctime
  \/ ParseEventtime
  \/ RecomputeLapsed
  \/ CheckTimeout
  \/ GetSecret
  \/ LoadWebhook
  \/ SendAlert
  \/ RaiseTimeout
  \/ ReturnPayload

NextRetry ==
  \/ TickRetry
  \/ InvokeRetry
  \/ Retry
  \/ ReadUtctime
  \/ ParseEventtime
  \/ RecomputeLapsed
  \/ CheckTimeout
  \/ GetSecret
  \/ LoadWebhook
  \/ SendAlert
  \/ RaiseTimeout
  \/ ReturnPayload

\* The clock keeps advancing, the runtime keeps redelivering, and a call
\* that has started runs to its end.
SpecRetry ==
  /\ InitRetry
  /\ [][NextRetry]_vars
  /\ WF_vars(TickRetry)
  /\ WF_vars(Retry)
  /\ WF_vars(Steps)

\* --------------------------------------------------- pair specification
\* Two process_trigger calls in flight at once (two function instances, or
\* two threads of one), interleaved statement by statement.  They share
\* the clock, the environment and the secret and nothing else: the
\* function keeps everything it computes in locals.
Switch ==
  /\ peer # Frame
  /\ peer' = Frame
  /\ pc' = peer.pc
  /\ context' = peer.context
  /\ event' = peer.event
  /\ timeout_secs' = peer.timeout_secs
  /\ notify_slack' = peer.notify_slack
  /\ utctime' = peer.utctime
  /\ eventtime' = peer.eventtime
  /\ lapsed' = peer.lapsed
  /\ lapsed_at' = peer.lapsed_at
  /\ webhook' = peer.webhook
  /\ fetches' = peer.fetches
  /\ posted' = peer.posted
  /\ errors' = peer.errors
  /\ outcome' = peer.outcome
  /\ attempt' = peer.attempt
  /\ UNCHANGED <<clock, world, cloud>>

PairTimestamps ==
  {[form |-> "aware", wall |-> 0, offset |-> 0],
   [form |-> "aware", wall |-> MaxTime, offset |-> 1],
   [form |-> "malformed", wall |-> 0, offset |-> 0]}

PairEvents ==
  {NoEvent, EventWith(b64encode(<<104, 105>>))}

InitPair ==
  InitWorld({DeployedEnviron},
            {"{\"hook\": \"https://hooks.slack.com/services/A/B/C\"}"})

InvokePair ==
  Invoke(PairTimestamps, PairEvents, Timeouts, BOOLEAN)

NextPair ==
  \/ Tick
  \/ InvokePair
  \/ Switch
  \/ Finish
  \/ ReadUtctime
  \/ ParseEventtime
  \/ RecomputeLapsed
  \/ CheckTimeout
  \/ GetSecret
  \/ LoadWebhook
  \/ SendAlert
  \/ RaiseTimeout
  \/ ReturnPayload

SpecPair ==
  InitPair /\ [][NextPair]_vars

\* What process_trigger(context, event, timeout_secs) gives when it runs
\* alone and reads the clock at now: lines 164-168 and 193-201.
Evaluate(ctx, now, ev, timeout) ==
  LET r == parse(ctx) IN
    IF ~r.ok
    THEN Raise("ParserError")
    ELSE IF ~r.dt.aware
    THEN Raise("TypeError")
    ELSE LET secs == total_seconds(UtcNow(now), r.dt) IN
           IF TimeoutExceeded(secs, timeout)
           THEN RaiseTimeoutError(timeout, secs)
           ELSE PayloadResult(ev)

\* ------------------------------------------------------------- JSON
\* Python values that json handles: a str is a sequence of one-character
\* strings, a dict a sequence of key/value items in insertion order, a list
\* a sequence of values.
PyStr(chars) ==
  [t |-> "str", s |-> chars, items |-> <<>>]

PyDict(items) ==
  [t |-> "dict", s |-> <<>>, items |-> items]

PyList(items) ==
  [t |-> "list", s |-> <<>>, items |-> items]

Item(key, value) ==
  [k |-> key, v |-> value]

\* d[key] = value: a key the dict has keeps its place, a new one goes last.
dict_setitem(items, key, value) ==
  IF \E i \in 1..Len(items) : items[i].k = key
  THEN [i \in 1..Len(items) |->
          IF items[i].k = key THEN Item(key, value) ELSE items[i]]
  ELSE Append(items, Item(key, value))

\* The characters the sample data and its JSON text are made of, with
\* their code points; the last two stand for e-acute and the euro sign.
CodePoints ==
  {<<"\t", 9>>, <<"\n", 10>>, <<"\r", 13>>, <<" ", 32>>, <<"\"", 34>>,
   <<",", 44>>, <<"-", 45>>, <<"/", 47>>, <<"0", 48>>, <<"1", 49>>,
   <<"2", 50>>, <<"3", 51>>, <<"4", 52>>, <<"5", 53>>, <<"6", 54>>,
   <<"7", 55>>, <<"8", 56>>, <<"9", 57>>, <<":", 58>>, <<"[", 91>>,
   <<"\\", 92>>, <<"]", 93>>, <<"_", 95>>, <<"a", 97>>, <<"b", 98>>,
   <<"c", 99>>, <<"d", 100>>, <<"e", 101>>, <<"f", 102>>, <<"k", 107>>,
   <<"l", 108>>, <<"n", 110>>, <<"o", 111>>, <<"p", 112>>, <<"r", 114>>,
   <<"t", 116>>, <<"u", 117>>, <<"{", 123>>, <<"}", 125>>,
   <<"U+00E9", 233>>, <<"U+20AC", 8364>>}

ord(c) ==
  (CHOOSE p \in CodePoints : p[1] = c)[2]

chr(n) ==
  (CHOOSE p \in CodePoints : p[2] = n)[1]

\* The digits of '{0:04x}'.format(n) and of int(esc, 16).
HexDigits ==
  <<"0", "1", "2", "3", "4", "5", "6", "7", "8", "9",
    "a", "b", "c", "d", "e", "f">>

hex4(n) ==
  <<HexDigits[((n \div 4096) % 16) + 1], HexDigits[((n \div 256) % 16) + 1],
    HexDigits[((n \div 16) % 16) + 1], HexDigits[(n % 16) + 1]>>

hexval(c) ==
  (CHOOSE d \in 1..16 : HexDigits[d] = c) - 1

\* Mutation: a newline inside a string is written as it is.
encode_char_raw_newline(c) ==
  CASE c = "\"" -> <<"\\", "\"">>
    [] c = "\\" -> <<"\\", "\\">>
    [] c = "\t" -> <<"\\", "t">>
    [] c = "\r" -> <<"\\", "r">>
    [] c \notin {"\n", "\t", "\r"} /\ (ord(c) < 32 \/ ord(c) > 126) ->
         <<"\\", "u">> \o hex4(ord(c))
    [] OTHER -> <<c>>

\* json.encoder (ensure_ascii): the escape of one character of a string;
\* a character outside the printable ASCII range is written as \uXXXX.
encode_char(c) ==
  CASE c = "\"" -> <<"\\", "\"">>
    [] c = "\\" -> <<"\\", "\\">>
    [] c = "\n" -> <<"\\", "n">>
    [] c = "\t" -> <<"\\", "t">>
    [] c = "\r" -> <<"\\", "r">>
    [] c \notin {"\n", "\t", "\r"} /\ (ord(c) < 32 \/ ord(c) > 126) ->
         <<"\\", "u">> \o hex4(ord(c))
    [] OTHER -> <<c>>

RECURSIVE encode_chars(_)
encode_chars(chars) ==
  IF chars = <<>>
  THEN <<>>
  ELSE encode_char(Head(chars)) \o encode_chars(Tail(chars))

\* json.encoder.encode_basestring_ascii
encode_basestring(chars) ==
  <<"\"">> \o encode_chars(chars) \o <<"\"">>

\* sep.join(parts)
RECURSIVE join(_, _)
join(sep, parts) ==
  IF parts = <<>>
  THEN <<>>
  ELSE IF Len(parts) = 1
  THEN parts[1]
  ELSE parts[1] \o sep \o join(sep, Tail(parts))

\* json.dumps(value) with the default separators ", " and ": ".
RECURSIVE json_dumps(_)
json_dumps(v) ==
  CASE v.t = "str" -> encode_basestring(v.s)
    [] v.t = "dict" ->
         <<"{">>
         \o join(<<",", " ">>,
                 [i \in 1..Len(v.items) |->
                    encode_basestring(v.items[i].k) \o <<":", " ">>
                    \o json_dumps(v.items[i].v)])
         \o <<"}">>
    [] v.t = "list" ->
         <<"[">>
         \o join(<<",", " ">>,
                 [i \in 1..Len(v.items) |-> json_dumps(v.items[i])])
         \o <<"]">>

\* json.decoder: what counts as space between tokens.
WHITESPACE ==
  {" ", "\t", "\n", "\r"}

RECURSIVE skip_ws(_, _)
skip_ws(text, i) ==
  IF i <= Len(text) /\ text[i] \in WHITESPACE
  THEN skip_ws(text, i + 1)
  ELSE i

\* A scan that raised JSONDecodeError.
JSONDecodeError ==
  [ok |-> FALSE, val |-> PyStr(<<>>), end |-> 0]

Scanned(value, end) ==
  [ok |-> TRUE, val |-> value, end |-> end]

\* json.decoder.scanstring (strict): text[i] is the character after the
\* opening quote.  A raw control character ends the scan with an error.
RECURSIVE scanstring(_, _, _)
scanstring(text, i, out) ==
  IF i > Len(text)
  THEN JSONDecodeError
  ELSE LET c == text[i] IN
    IF c = "\""
    THEN Scanned(PyStr(out), i + 1)
    ELSE IF c \in {"\n", "\t", "\r"}
    THEN JSONDecodeError
    ELSE IF c # "\\"
    THEN scanstring(text, i + 1, Append(out, c))
    ELSE IF i + 1 > Len(text)
    THEN JSONDecodeError
    ELSE LET e == text[i + 1] IN
      IF e \in {"\"", "\\", "/"}
      THEN scanstring(text, i + 2, Append(out, e))
      ELSE IF e = "n"
      THEN scanstring(text, i + 2, Append(out, "\n"))
      ELSE IF e = "t"
      THEN scanstring(text, i + 2, Append(out, "\t"))
      ELSE IF e = "r"
      THEN scanstring(text, i + 2, Append(out, "\r"))
      ELSE IF /\ e = "u"
              /\ i + 5 <= Len(text)
              /\ \A d \in 2..5 : \E h \in 1..16 : HexDigits[h] = text[i + d]
      THEN scanstring(text, i + 6,
                      Append(out, chr(hexval(text[i + 2]) * 4096
                                      + hexval(text[i + 3]) * 256
                                      + hexval(text[i + 4]) * 16
                                      + hexval(text[i + 5]))))
      ELSE JSONDecodeError

\* json.scanner.scan_once and json.decoder.JSONObject / JSONArray, for
\* values made of strings, objects and arrays.
RECURSIVE scan_once(_, _)
RECURSIVE JSONObject(_, _, _)
RECURSIVE JSONArray(_, _, _)
scan_once(text, i) ==
  IF i > Len(text)
  THEN JSONDecodeError
  ELSE CASE text[i] = "\"" -> scanstring(text, i + 1, <<>>)
         [] text[i] = "{" -> JSONObject(text, i + 1, <<>>)
         [] text[i] = "[" -> JSONArray(text, i + 1, <<>>)
         [] OTHER -> JSONDecodeError

JSONObject(text, i, items) ==
  LET j == skip_ws(text, i) IN
    IF j > Len(text)
    THEN JSONDecodeError
    ELSE IF text[j] = "}" /\ items = <<>>
    THEN Scanned(PyDict(<<>>), j + 1)
    ELSE IF text[j] # "\""
    THEN JSONDecodeError
    ELSE LET key == scanstring(text, j + 1, <<>>) IN
      IF ~key.ok
      THEN JSONDecodeError
      ELSE LET c == skip_ws(text, key.end) IN
        IF c > Len(text) \/ text[c] # ":"
        THEN JSONDecodeError
        ELSE LET value == scan_once(text, skip_ws(text, c + 1)) IN
          IF ~value.ok
          THEN JSONDecodeError
          ELSE LET e == skip_ws(text, value.end)
                   pairs == dict_setitem(items, key.val.s, value.val)
               IN
            IF e > Len(text)
            THEN JSONDecodeError
            ELSE IF text[e] = "}"
            THEN Scanned(PyDict(pairs), e + 1)
            ELSE IF text[e] = ","
            THEN JSONObject(text, e + 1, pairs)
            ELSE JSONDecodeError

JSONArray(text, i, items) ==
  LET j == skip_ws(text, i) IN
    IF j > Len(text)
    THEN JSONDecodeError
    ELSE IF text[j] = "]" /\ items = <<>>
    THEN Scanned(PyList(<<>>), j + 1)
    ELSE LET value == scan_once(text, j) IN
      IF ~value.ok
      THEN JSONDecodeError
      ELSE LET e == skip_ws(text, value.end)
               values == Append(items, value.val)
           IN
        IF e > Len(text)
        THEN JSONDecodeError
        ELSE IF text[e] = "]"
        THEN Scanned(PyList(values), e + 1)
        ELSE IF text[e] = ","
        THEN JSONArray(text, e + 1, values)
        ELSE JSONDecodeError

\* json.loads(text): one value, then nothing but space.
json_decode(text) ==
  LET value == scan_once(text, skip_ws(text, 1)) IN
    IF value.ok /\ skip_ws(text, value.end) = Len(text) + 1
    THEN value
    ELSE JSONDecodeError

\* ---------------------------------------------------------- storage
\* data.encode("utf-8"), what upload_from_string does with a str.  A
\* text of ASCII characters only is encoded one byte per character.
str_encode(chars) ==
  LET cps == [i \in 1..Len(chars) |-> ord(chars[i])] IN
    IF \A i \in 1..Len(cps) : cps[i] < 128
    THEN cps
    ELSE utf8_encode(cps)

\* contents.decode("utf-8")
bytes_decode(bs) ==
  LET r == IF \A i \in 1..Len(bs) : bs[i] < 128
           THEN [ok |-> TRUE, val |-> bs]
           ELSE utf8_decode(bs, 1, <<>>)
  IN  [ok |-> r.ok, val |-> [i \in 1..Len(r.val) |-> chr(r.val[i])]]

\* str.replace(old, new) for a one-character old and new
replace(chars, old, new) ==
  [i \in 1..Len(chars) |-> IF chars[i] = old THEN new ELSE chars[i]]

\* str.rstrip(c)
RECURSIVE rstrip(_, _)
rstrip(chars, c) ==
  IF chars # <<>> /\ chars[Len(chars)] = c
  THEN rstrip(SubSeq(chars, 1, Len(chars) - 1), c)
  ELSE chars

\* datetime.date.today().isoformat()
Today ==
  <<"2", "0", "2", "6", "-", "1", "1", "-", "0", "2">>

UploadDate ==
  <<"u", "p", "l", "o", "a", "d", "_", "d", "a", "t", "e">>

\* lines 256-257: a single dict is handled as a list of one item.
AsList(json_data) ==
  IF json_data.t = "dict" THEN PyList(<<json_data>>) ELSE json_data

\* lines 258-260: the items after the loop, which writes the upload date
\* into the caller's dicts when add_date is set.
DatedItems(items, add_date) ==
  [i \in 1..Len(items) |->
     IF add_date
     THEN PyDict(dict_setitem(items[i].items, UploadDate, PyStr(Today)))
     ELSE items[i]]

RECURSIVE json_lines(_)
json_lines(items) ==
  IF items = <<>>
  THEN <<>>
  ELSE json_dumps(Head(items)) \o <<"\n">> \o json_lines(Tail(items))

\* Mutation: the upload date is written into a copy of the items.
generate_json_nld_on_copy(json_data, add_date) ==
  LET items == DatedItems(AsList(json_data).items, add_date) IN
    [json_nld |-> json_lines(items),
     json_data |-> json_data]

\* _generate_json_nld(json_data, add_date): the text it returns, and
\* json_data as the caller sees it afterwards.
generate_json_nld(json_data, add_date) ==
  LET items == DatedItems(AsList(json_data).items, add_date) IN
    [json_nld |-> json_lines(items),
     json_data |-> IF json_data.t = "dict" THEN items[1] ELSE PyList(items)]

\* read_gcs_nldjson lines 130-132 on the text read_gcs returned
parse_json_nld(json_nld) ==
  json_decode(rstrip(<<"[">> \o replace(json_nld, "\n", ","), ",")
              \o <<"]">>)

\* ------------------------------------------- storage: the NLD-JSON calls
MaxItems == 2

NldStrings ==
  {<<>>, <<"a">>, <<",">>, <<"\n">>, <<"\"">>, <<"\\">>, <<"\\", "n">>,
   <<"a", "\n", ",">>, <<",", "\n">>, <<"U+00E9">>}

NldDicts ==
  {PyDict(<<>>)}
    \cup {PyDict(<<Item(<<"k">>, PyStr(str))>>) : str \in NldStrings}
    \cup {PyDict(<<Item(<<"k">>, PyStr(str)),
                   Item(UploadDate, PyStr(<<"o", "l", "d">>))>>) :
            str \in {<<"a">>, <<"\n">>}}
    \cup {PyDict(<<Item(<<",">>,
                        PyList(<<PyStr(<<"\n">>), PyDict(<<>>)>>))>>),
          PyDict(<<Item(<<"\n">>, PyStr(<<>>))>>)}

\* json_data: one dict, or a list of up to MaxItems dicts.
NldData ==
  NldDicts
    \cup {PyList(items) :
            items \in UNION {[1..n -> NldDicts] : n \in 0..MaxItems}}

\* The caller of the storage functions before its first call.
IdleStorage ==
  [op |-> "none", pc |-> "idle", json_data |-> PyList(<<>>),
   add_date |-> FALSE, create_bucket_if_not_found |-> FALSE,
   json_nld |-> <<>>, result |-> PyList(<<>>), exc |-> "", wrote |-> FALSE,
   data |-> <<>>, existed |-> FALSE, original |-> PyList(<<>>)]

\* A blob that an earlier run has left in the bucket.
OldBlob ==
  [has |-> TRUE,
   text |-> str_encode(json_lines(<<PyDict(<<Item(<<"k">>,
                                                   PyStr(<<"a">>))>>)>>))]

\* One run of a caller that writes, reads, or writes and then reads: the
\* bucket may be missing, empty, or hold an older blob of the same name.
InitNld ==
  /\ InitTrigger({DeployedEnviron}, {NotFound})
  /\ gcs \in {NoGcs, [bucket |-> TRUE, blob |-> NoBlob],
              [bucket |-> TRUE, blob |-> OldBlob]}
  /\ bq = NoBq
  /\ call = IdleStorage
  /\ NoServices

\* write_gcs_nldjson(bucket_name, blob_name, json_data, add_date,
\*                   create_bucket_if_not_found=...)
CallWriteNldjson ==
  /\ call.pc = "idle"
  /\ \E data \in NldData, add \in BOOLEAN, create \in BOOLEAN :
       call' = [IdleStorage EXCEPT !.op = "write_gcs_nldjson",
                                   !.pc = "L234",
                                   !.json_data = data,
                                   !.original = data,
                                   !.add_date = add,
                                   !.create_bucket_if_not_found = create,
                                   !.existed = gcs.bucket]
  /\ UNCHANGED <<trigger, services, gcs, bq>>

\* lines 234-235: nld_json = _generate_json_nld(json_data, add_date), which
\* is handed to write_gcs as its data.
GenerateJsonNld ==
  /\ call.pc = "L234"
  /\ LET r == generate_json_nld(call.json_data, call.add_date) IN
       call' = [call EXCEPT !.json_nld = r.json_nld,
                            !.data = r.json_nld,
                            !.json_data = r.json_data,
                            !.pc = "L178"]
  /\ UNCHANGED <<trigger, services, gcs, bq>>

\* Mutation: a missing bucket is created whatever the flag says.
WriteGcsGetBucketAlwaysCreate ==
  /\ call.pc = "L178"
  /\ IF gcs.bucket
     THEN /\ call' = [call EXCEPT !.pc = "L185"]
          /\ UNCHANGED gcs
     ELSE \/ /\ gcs' = [gcs EXCEPT !.bucket = TRUE]
             /\ call' = [call EXCEPT !.pc = "L185"]
          \/ /\ call' = [call EXCEPT !.pc = "done", !.exc = "Forbidden"]
             /\ UNCHANGED gcs
  /\ UNCHANGED <<trigger, services, bq>>

\* write_gcs lines 177-184: get_bucket; NotFound is raised again unless
\* create_bucket_if_not_found, and then create_bucket runs, which raises
\* what the API refuses (lines 56-67).
WriteGcsGetBucket ==
  /\ call.pc = "L178"
  /\ IF gcs.bucket
     THEN /\ call' = [call EXCEPT !.pc = "L185"]
          /\ UNCHANGED gcs
     ELSE IF ~call.create_bucket_if_not_found
     THEN /\ call' = [call EXCEPT !.pc = "done", !.exc = "NotFound"]
          /\ UNCHANGED gcs
     ELSE \/ /\ gcs' = [gcs EXCEPT !.bucket = TRUE]
             /\ call' = [call EXCEPT !.pc = "L185"]
          \/ /\ call' = [call EXCEPT !.pc = "done", !.exc = "Forbidden"]
             /\ UNCHANGED gcs
  /\ UNCHANGED <<trigger, services, bq>>

\* write_gcs lines 185-187: blob.upload_from_string(data)
WriteGcsUpload ==
  /\ call.pc = "L185"
  /\ gcs' = [gcs EXCEPT !.blob = [has |-> TRUE,
                                  text |-> str_encode(call.data)]]
  /\ call' = [call EXCEPT !.pc = "done", !.wrote = TRUE]
  /\ UNCHANGED <<trigger, services, bq>>

\* read_gcs_nldjson(bucket_name, blob_name), by a caller that has written
\* nothing or has just written json_data.
CallReadNldjson ==
  /\ \/ call.pc = "idle"
     \/ call.pc = "done" /\ call.op = "write_gcs_nldjson"
  /\ call' = [call EXCEPT !.op = "read_gcs_nldjson", !.pc = "L101",
                          !.json_nld = <<>>, !.exc = ""]
  /\ UNCHANGED <<trigger, services, gcs, bq>>

\* read_gcs lines 101-104: get_bucket raises NotFound, get_blob returns
\* None for a blob that is not there, the bytes are decoded as UTF-8 and
\* returned, to read_gcs_nldjson line 128 or to the caller of read_gcs.
ReadGcs ==
  /\ call.pc = "L101"
  /\ call' =
       IF ~gcs.bucket
       THEN [call EXCEPT !.pc = "done", !.exc = "NotFound"]
       ELSE IF ~gcs.blob.has
       THEN [call EXCEPT !.pc = "done", !.exc = "AttributeError"]
       ELSE LET r == bytes_decode(gcs.blob.text) IN
              IF r.ok
              THEN [call EXCEPT
                      !.pc = IF call.op = "read_gcs" THEN "done" ELSE "L130",
                      !.json_nld = r.val]
              ELSE [call EXCEPT !.pc = "done", !.exc = "UnicodeDecodeError"]
  /\ UNCHANGED <<trigger, services, gcs, bq>>

\* read_gcs_nldjson lines 130-132
LoadJsonList ==
  /\ call.pc = "L130"
  /\ LET r == parse_json_nld(call.json_nld) IN
       call' = IF r.ok
               THEN [call EXCEPT !.pc = "done", !.result = r.val]
               ELSE [call EXCEPT !.pc = "done", !.exc = "JSONDecodeError"]
  /\ UNCHANGED <<trigger, services, gcs, bq>>

NextNld ==
  \/ CallWriteNldjson
  \/ GenerateJsonNld
  \/ WriteGcsGetBucket
  \/ WriteGcsUpload
  \/ CallReadNldjson
  \/ ReadGcs
  \/ LoadJsonList

SpecNld ==
  InitNld /\ [][NextNld]_vars

\* ------------------------------------------ storage: write_gcs, read_gcs
\* data: strings with plain, quoting, line-breaking and non-ASCII characters.
GcsTexts ==
  {<<>>, <<"a">>, <<"a", "\n", ",">>, <<"{", "\"", "}">>, <<"U+00E9">>,
   <<"a", "U+20AC", "U+00E9", "\n">>}

\* write_gcs(bucket_name, blob_name, data, create_bucket_if_not_found=...)
CallWriteGcs ==
  /\ call.pc = "idle"
  /\ \E data \in GcsTexts, create \in BOOLEAN :
       call' = [IdleStorage EXCEPT !.op = "write_gcs",
                                   !.pc = "L178",
                                   !.data = data,
                                   !.create_bucket_if_not_found = create,
                                   !.existed = gcs.bucket]
  /\ UNCHANGED <<trigger, services, gcs, bq>>

\* read_gcs(bucket_name, blob_name, decode=True), by a caller that has
\* written nothing or has just called write_gcs.
CallReadGcs ==
  /\ \/ call.pc = "idle"
     \/ call.pc = "done" /\ call.op = "write_gcs"
  /\ call' = [call EXCEPT !.op = "read_gcs", !.pc = "L101",
                          !.json_nld = <<>>, !.exc = ""]
  /\ UNCHANGED <<trigger, services, gcs, bq>>

NextGcs ==
  \/ CallWriteGcs
  \/ WriteGcsGetBucket
  \/ WriteGcsUpload
  \/ CallReadGcs
  \/ ReadGcs

SpecGcs ==
  InitNld /\ [][NextGcs]_vars

\* ---------------------------------------------------------- BigQuery
\* The table the caller names, and the one _generate_schema works in.
TempTable ==
  "temp_table_autodetect_schema"

TableNames ==
  {"dest", TempTable}

\* table.time_partitioning of a bigquery.Table that was given none
NoPartitioning ==
  [set |-> FALSE, type_ |-> Unset, field |-> Unset]

\* bigquery.TimePartitioning(type_=..., field=...): the client library
\* takes DAY for a type_ of None.
TimePartitioning(type_, field) ==
  [set |-> TRUE, type_ |-> IF type_ = Unset THEN "DAY" ELSE type_,
   field |-> field]

\* A table that is not in the dataset.
NoTable ==
  [exists |-> FALSE, schema |-> "none", time_partitioning |-> NoPartitioning,
   loads |-> <<>>]

\* time_partitioning_interval values: none, empty, the four recognized
\* intervals in several capitalizations, and one that is not recognized.
Intervals ==
  {Unset, "", "HOUR", "hour", "Day", "MONTH", "yEaR", "WEEK"}

Fields ==
  {Unset, "upload_date"}

\* str.upper() on the interval values
upper(str) ==
  CASE str = "hour" -> "HOUR"
    [] str = "Day" -> "DAY"
    [] str = "yEaR" -> "YEAR"
    [] OTHER -> str

\* Python truth value of an optional string: None and "" are false.
Truthy(str) ==
  str # Unset /\ str # ""

\* create_table lines 210-219: partitioning_interval
partitioning_interval(time_partitioning_interval) ==
  IF ~Truthy(time_partitioning_interval)
  THEN Unset
  ELSE IF upper(time_partitioning_interval)
            \in {"HOUR", "DAY", "MONTH", "YEAR"}
  THEN upper(time_partitioning_interval)
  ELSE Unset

\* schema_json arguments: None, an empty list, a list of fields.
SchemaJsons ==
  {Unset, "[]", "fields"}

\* Python truth value of schema_json
HasSchema(schema_json) ==
  schema_json \notin {Unset, "[]"}

\* create_table lines 197-222: the bigquery.Table that is sent to the API
NewTable(schema_json, time_partitioning_interval, time_partitioning_field) ==
  [exists |-> TRUE,
   schema |-> IF HasSchema(schema_json) THEN schema_json ELSE "none",
   time_partitioning |->
     IF Truthy(time_partitioning_interval)
        \/ Truthy(time_partitioning_field)
     THEN TimePartitioning(partitioning_interval(time_partitioning_interval),
                           time_partitioning_field)
     ELSE NoPartitioning,
   loads |-> <<>>]

\* create_table: client.create_table raises Conflict for a table that is
\* there, and creates it otherwise.
create_table(tables, table, schema_json, interval, field) ==
  IF tables[table].exists
  THEN [exc |-> "Conflict", tables |-> tables]
  ELSE [exc |-> "",
        tables |-> [tables EXCEPT ![table] =
                      NewTable(schema_json, interval, field)]]

\* Mutation: the write dispositions are swapped.
write_disp_swapped(append) ==
  IF append THEN "WRITE_TRUNCATE" ELSE "WRITE_APPEND"

\* upload_gcs_json, lines 462-465: the write disposition of the load job.
write_disp(append) ==
  IF append THEN "WRITE_APPEND" ELSE "WRITE_TRUNCATE"

\* A load job that succeeded: WRITE_APPEND adds the rows of the blob,
\* WRITE_TRUNCATE replaces what the table held; a table without schema
\* takes the job's schema or the one BigQuery detects.
Loaded(tab, append, autodetect_schema, schema_json) ==
  [tab EXCEPT
     !.loads = IF write_disp(append) = "WRITE_APPEND"
               THEN Append(tab.loads, "blob")
               ELSE <<"blob">>,
     !.schema = IF tab.schema # "none"
                THEN tab.schema
                ELSE IF HasSchema(schema_json)
                THEN schema_json
                ELSE "autodetected"]

\* Mutation: generate_schema does not count as a way to get a schema.
SchemaArgsMissingNoGenerate(schema_json, autodetect_schema, generate_schema) ==
  ~HasSchema(schema_json) /\ ~autodetect_schema

\* create_and_upload line 574
SchemaArgsMissing(schema_json, autodetect_schema, generate_schema) ==
  ~HasSchema(schema_json) /\ ~autodetect_schema /\ ~generate_schema

\* def _get_schema(bq_project, dataset, table)
GetSchemaParameters ==
  {"bq_project", "dataset", "table"}

\* lines 305-307: _get_schema(bq_project, dataset,
\* "temp_table_autodetect_schema", credentials=credentials)
GetSchemaArguments ==
  {"bq_project", "dataset", "table", "credentials"}

\* ------------------------------------------- BigQuery: the table calls
MaxCalls == 2

\* The caller of the BigQuery functions between calls; n counts its calls,
\* before holds the tables as the running call found them and log lists
\* the API requests it has sent.
IdleBq ==
  [op |-> "none", pc |-> "idle", n |-> 0, table |-> "dest",
   schema_json |-> Unset, autodetect_schema |-> FALSE,
   generate_schema |-> FALSE, already_created_ok |-> FALSE,
   append |-> TRUE, await_result |-> TRUE,
   time_partitioning_interval |-> Unset, time_partitioning_field |-> Unset,
   existed |-> FALSE, before |-> <<>>, log |-> <<>>, job |-> "none",
   exc |-> ""]

\* A dataset in which the destination table is there already or is not,
\* and no temporary table is left.
InitBq ==
  /\ InitTrigger({DeployedEnviron}, {NotFound})
  /\ gcs = [bucket |-> TRUE, blob |-> OldBlob]
  /\ bq \in {[tables |-> [n \in TableNames |-> NoTable]],
             [tables |-> [n \in TableNames |->
                            IF n = "dest"
                            THEN NewTable("fields", Unset, Unset)
                            ELSE NoTable]],
             [tables |-> [n \in TableNames |->
                            IF n = "dest"
                            THEN [NewTable("fields", Unset, Unset)
                                    EXCEPT !.loads = <<"rows">>]
                            ELSE NoTable]]}
  /\ call = IdleBq
  /\ NoServices

\* create_and_upload(bucket_name, blob_name, bq_project, dataset, table, ...)
CallCreateAndUpload ==
  /\ call.pc = "idle"
  /\ call.n < MaxCalls
  /\ \E schema \in SchemaJsons, auto \in BOOLEAN, gen \in BOOLEAN,
        ok \in BOOLEAN, app \in BOOLEAN, await \in BOOLEAN :
       call' = [IdleBq EXCEPT !.op = "create_and_upload",
                              !.pc = "L574",
                              !.n = call.n + 1,
                              !.schema_json = schema,
                              !.autodetect_schema = auto,
                              !.generate_schema = gen,
                              !.already_created_ok = ok,
                              !.append = app,
                              !.await_result = await,
                              !.existed = bq.tables["dest"].exists,
                              !.before = bq.tables]
  /\ UNCHANGED <<trigger, services, gcs, bq>>

\* lines 574-582: the schema arguments are checked and the call goes on
\* to _generate_schema or to create_table.
CheckSchemaArgs ==
  /\ call.pc = "L574"
  /\ call' =
       IF SchemaArgsMissing(call.schema_json, call.autodetect_schema,
                            call.generate_schema)
       THEN [call EXCEPT !.pc = "done", !.exc = "Exception"]
       ELSE IF call.generate_schema
       THEN [call EXCEPT !.pc = "L295"]
       ELSE [call EXCEPT !.pc = "L587"]
  /\ UNCHANGED <<trigger, services, gcs, bq>>

\* _generate_schema lines 295-304, first half: create_and_upload on the
\* temporary table with autodetect_schema=True passes line 574 and calls
\* create_table; already_created_ok is False, a Conflict is raised again.
GenerateSchemaCreateTable ==
  /\ call.pc = "L295"
  /\ ~SchemaArgsMissing(Unset, TRUE, FALSE)
  /\ LET r == create_table(bq.tables, TempTable, Unset, Unset, Unset) IN
       /\ bq' = [bq EXCEPT !.tables = r.tables]
       /\ call' = IF r.exc # ""
                  THEN [call EXCEPT !.pc = "done", !.exc = r.exc]
                  ELSE [call EXCEPT
                          !.pc = "L600temp",
                          !.log = Append(call.log,
                                         <<"create_table", TempTable>>)]
  /\ UNCHANGED <<trigger, services, gcs>>

\* _generate_schema lines 295-304, second half: upload_gcs_json loads the
\* blob into the temporary table and waits; _monitor_job raises
\* SystemError for a job that failed.
GenerateSchemaUpload ==
  /\ call.pc = "L600temp"
  /\ \E job \in {"DONE", "BadRequest"} :
       /\ bq' = IF job = "DONE"
                THEN [bq EXCEPT !.tables[TempTable] =
                        Loaded(bq.tables[TempTable], TRUE, TRUE, Unset)]
                ELSE bq
       /\ call' = [call EXCEPT
                     !.pc = IF job = "DONE" THEN "L305" ELSE "done",
                     !.exc = IF job = "DONE" THEN "" ELSE "SystemError",
                     !.log = Append(call.log, <<"load", TempTable>>)]
  /\ UNCHANGED <<trigger, services, gcs>>

\* _generate_schema lines 305-311: _get_schema is called with a keyword it
\* does not take, which raises TypeError; otherwise the schema would be
\* read, the temporary table deleted and the schema returned to line 582.
GenerateSchemaGetSchema ==
  /\ call.pc = "L305"
  /\ IF ~(GetSchemaArguments \subseteq GetSchemaParameters)
     THEN /\ call' = [call EXCEPT !.pc = "done", !.exc = "TypeError"]
          /\ UNCHANGED bq
     ELSE /\ call' = [call EXCEPT
                        !.pc = "L587",
                        !.schema_json = bq.tables[TempTable].schema,
                        !.log = Append(call.log,
                                       <<"delete_table", TempTable>>)]
          /\ bq' = [bq EXCEPT !.tables[TempTable] = NoTable]
  /\ UNCHANGED <<trigger, services, gcs>>

\* lines 586-598: create_table; a Conflict is raised again unless
\* already_created_ok.
CreateDestTable ==
  /\ call.pc = "L587"
  /\ LET r == create_table(bq.tables, call.table, call.schema_json,
                           call.time_partitioning_interval,
                           call.time_partitioning_field)
     IN
       /\ bq' = [bq EXCEPT !.tables = r.tables]
       /\ call' = IF r.exc = "Conflict"
                  THEN IF ~call.already_created_ok
                       THEN [call EXCEPT !.pc = "done", !.exc = "Conflict"]
                       ELSE [call EXCEPT !.pc = "L600"]
                  ELSE [call EXCEPT
                          !.pc = "L600",
                          !.log = Append(call.log,
                                         <<"create_table", call.table>>)]
  /\ UNCHANGED <<trigger, services, gcs>>

\* lines 600-612: upload_gcs_json submits the load job and, with
\* await_result, waits for it; _monitor_job raises SystemError for a job
\* that failed.
UploadDest ==
  /\ call.pc = "L600"
  /\ \E job \in {"DONE", "BadRequest"} :
       /\ bq' = IF job = "DONE"
                THEN [bq EXCEPT !.tables[call.table] =
                        Loaded(bq.tables[call.table], call.append,
                               call.autodetect_schema, call.schema_json)]
                ELSE bq
       /\ call' = [call EXCEPT
                     !.pc = "done",
                     !.job = job,
                     !.exc = IF job = "BadRequest" /\ call.await_result
                             THEN "SystemError"
                             ELSE "",
                     !.log = Append(call.log, <<"load", call.table>>)]
  /\ UNCHANGED <<trigger, services, gcs>>

\* upload_gcs_json(bucket_name, blob_name, bq_project, dataset, table,
\*                 append, ignore_unknown, autodetect_schema, schema_json,
\*                 credentials, await_result)
CallUploadGcsJson ==
  /\ call.pc = "idle"
  /\ call.n < MaxCalls
  /\ \E append \in BOOLEAN, autodetect \in BOOLEAN, await \in BOOLEAN,
        schema_json \in SchemaJsons :
       call' = [IdleBq EXCEPT
                  !.op = "upload_gcs_json", !.pc = "L448",
                  !.n = call.n + 1,
                  !.append = append,
                  !.autodetect_schema = autodetect,
                  !.schema_json = schema_json,
                  !.await_result = await,
                  !.existed = bq.tables["dest"].exists,
                  !.before = bq.tables]
  /\ UNCHANGED <<trigger, services, gcs, bq>>

\* lines 448-484: client.get_table raises NotFound for a table that is not
\* there; otherwise the load job is submitted with the write disposition
\* chosen from append, and with await_result a failed job raises
\* SystemError from _monitor_job.
UploadGcsJson ==
  /\ call.pc = "L448"
  /\ IF ~bq.tables[call.table].exists
     THEN /\ call' = [call EXCEPT !.pc = "done", !.exc = "NotFound"]
          /\ UNCHANGED bq
     ELSE \E job \in {"DONE", "BadRequest"} :
            /\ bq' = IF job = "DONE"
                     THEN [bq EXCEPT !.tables[call.table] =
                             Loaded(bq.tables[call.table], call.append,
                                    call.autodetect_schema, call.schema_json)]
                     ELSE bq
            /\ call' = [call EXCEPT
                          !.pc = "done",
                          !.job = job,
                          !.exc = IF job = "BadRequest" /\ call.await_result
                                  THEN "SystemError"
                                  ELSE "",
                          !.log = Append(call.log, <<"load", call.table>>)]
  /\ UNCHANGED <<trigger, services, gcs>>

\* create_table(bq_project, dataset, table, schema_json,
\*              time_partitioning_interval, time_partitioning_field)
CallCreateTable ==
  /\ call.pc = "idle"
  /\ call.n < MaxCalls
  /\ \E schema \in SchemaJsons, interval \in Intervals, field \in Fields :
       call' = [IdleBq EXCEPT !.op = "create_table",
                              !.pc = "L197",
                              !.n = call.n + 1,
                              !.schema_json = schema,
                              !.time_partitioning_interval = interval,
                              !.time_partitioning_field = field,
                              !.existed = bq.tables["dest"].exists,
                              !.before = bq.tables]
  /\ UNCHANGED <<trigger, services, gcs, bq>>

\* create_table lines 197-225
CreateTable ==
  /\ call.pc = "L197"
  /\ LET r == create_table(bq.tables, call.table, call.schema_json,
                           call.time_partitioning_interval,
                           call.time_partitioning_field)
     IN
       /\ bq' = [bq EXCEPT !.tables = r.tables]
       /\ call' = IF r.exc # ""
                  THEN [call EXCEPT !.pc = "done", !.exc = r.exc]
                  ELSE [call EXCEPT
                          !.pc = "done",
                          !.log = Append(call.log,
                                         <<"create_table", call.table>>)]
  /\ UNCHANGED <<trigger, services, gcs>>

\* delete_table(bq_project, dataset, table): client.delete_table raises
\* NotFound for a table that is not there.
DeleteTable ==
  /\ call.pc = "idle"
  /\ call.n < MaxCalls
  /\ \E table \in TableNames :
       /\ bq' = IF bq.tables[table].exists
                THEN [bq EXCEPT !.tables[table] = NoTable]
                ELSE bq
       /\ call' = [IdleBq EXCEPT
                     !.op = "delete_table",
                     !.pc = "done",
                     !.n = call.n + 1,
                     !.table = table,
                     !.existed = bq.tables[table].exists,
                     !.before = bq.tables,
                     !.exc = IF bq.tables[table].exists THEN ""
                             ELSE "NotFound"]
  /\ UNCHANGED <<trigger, services, gcs>>

\* The call has returned or raised; the caller goes on.
ReturnBq ==
  /\ call.pc = "done"
  /\ call' = [IdleBq EXCEPT !.n = call.n]
  /\ UNCHANGED <<trigger, services, gcs, bq>>

NextBq ==
  \/ CallCreateAndUpload
  \/ CheckSchemaArgs
  \/ GenerateSchemaCreateTable
  \/ GenerateSchemaUpload
  \/ GenerateSchemaGetSchema
  \/ CreateDestTable
  \/ UploadDest
  \/ CallUploadGcsJson
  \/ UploadGcsJson
  \/ CallCreateTable
  \/ CreateTable
  \/ DeleteTable
  \/ ReturnBq

SpecBq ==
  InitBq /\ [][NextBq]_vars

\* ---------------------------------------------------- Secret Manager
\* What a library call hands back: a value or the exception it raised.
Returned(v) ==
  [exc |-> "", val |-> v]

Raised(e) ==
  [exc |-> e, val |-> PyStr(<<>>)]

\* Mutation: the first version is read instead of the latest.
secret_uri_first_version(host_project, secret_name) ==
  "projects/" \o host_project \o "/secrets/" \o secret_name \o "/versions/1"

\* get_secret_by_name, line 94: the URI of the secret's latest version.
secret_uri(host_project, secret_name) ==
  "projects/" \o host_project \o "/secrets/" \o secret_name
    \o "/versions/latest"

\* The URIs Secret Manager knows.
SecretUris ==
  {"projects/p/secrets/s/versions/latest",
   "projects/q/secrets/s/versions/latest",
   "projects/p/secrets/s/versions/1"}

\* Payloads a secret version may hold: a JSON object, a JSON object with
\* a character outside ASCII, a JSON string, a text that is not JSON, and
\* bytes that are not UTF-8.
SecretPayloads ==
  {str_encode(<<"{", "\"", "k", "\"", ":", " ", "\"", "a", "\"", "}">>),
   str_encode(<<"{", "\"", "k", "\"", ":", "\"", "U+00E9", "\"", "}">>),
   str_encode(<<"\"", "a", "\"">>),
   str_encode(<<"a">>),
   <<233>>}

\* get_secret_by_uri(secret_uri, decode=True), lines 131-138:
\* access_secret_version raises NotFound for a version that is not there;
\* the payload is decoded as UTF-8 unless decode is False.
get_secret_by_uri(store, uri, decode) ==
  IF uri \notin DOMAIN store \/ ~store[uri].some
  THEN Raised("NotFound")
  ELSE IF decode = "False"
  THEN Returned([t |-> "bytes", s |-> store[uri].val, items |-> <<>>])
  ELSE LET text == bytes_decode(store[uri].val) IN
       IF text.ok
       THEN Returned(PyStr(text.val))
       ELSE Raised("UnicodeDecodeError")

\* get_secret_by_name(host_project, secret_name, **kwargs), lines 94-95
get_secret_by_name(store, host_project, secret_name, decode) ==
  get_secret_by_uri(store, secret_uri(host_project, secret_name), decode)

\* get_secret_json(host_project, secret_name, **kwargs), lines 63-64:
\* decode=True is passed next to **kwargs, so a caller's own decode is a
\* second value for the same keyword (TypeError); json.loads raises for
\* a text that is not JSON.
get_secret_json(store, host_project, secret_name, decode) ==
  IF decode # Unset
  THEN Raised("TypeError")
  ELSE LET secret_text ==
             get_secret_by_name(store, host_project, secret_name, "True")
       IN
       IF secret_text.exc # ""
       THEN secret_text
       ELSE LET parsed == json_decode(secret_text.val.s) IN
            IF parsed.ok
            THEN Returned(parsed.val)
            ELSE Raised("JSONDecodeError")

\* get_secret(host_project, secret_name, **kwargs), line 38
get_secret(store, host_project, secret_name, decode) ==
  get_secret_json(store, host_project, secret_name, decode)

\* A caller that has read nothing yet.
NoRead ==
  [done |-> FALSE, uri |-> "", result |-> Raised("")]

SecretAccessors ==
  {"get_secret", "get_secret_json", "get_secret_by_name",
   "get_secret_by_uri"}

\* Secret Manager without versions, and one caller with its arguments
\* (decode, if it passes one) that has called no accessor yet.
InitSecrets ==
  /\ InitTrigger({DeployedEnviron}, {NotFound})
  /\ gcs = NoGcs
  /\ bq = NoBq
  /\ sm = [u \in SecretUris |-> None]
  /\ topics = <<>>
  /\ http = <<>>
  /\ call \in [op : {"secrets"}, pc : {"idle"},
               host_project : {"p", "q"}, secret_name : {"s"},
               decode : {Unset, "True", "False"},
               read : {[a \in SecretAccessors |-> NoRead]}]

\* A new version of a secret is added (or the secret is destroyed); what
\* the caller read before is of the store as it was, and is dropped.
AddSecretVersion ==
  /\ \E u \in SecretUris,
        version \in {Some(bs) : bs \in SecretPayloads} \cup {None} :
       /\ sm[u] # version
       /\ sm' = [sm EXCEPT ![u] = version]
  /\ call' = [call EXCEPT !.read = [a \in SecretAccessors |-> NoRead]]
  /\ UNCHANGED <<trigger, gcs, bq, topics, http>>

CallGetSecretByUri ==
  /\ \E u \in SecretUris :
       call' = [call EXCEPT !.read["get_secret_by_uri"] =
                  [done |-> TRUE, uri |-> u,
                   result |-> get_secret_by_uri(
                                sm, u,
                                IF call.decode = Unset
                                THEN "True" ELSE call.decode)]]
  /\ UNCHANGED <<trigger, gcs, bq, services>>

CallGetSecretByName ==
  /\ call' = [call EXCEPT !.read["get_secret_by_name"] =
                [done |-> TRUE, uri |-> "",
                 result |-> get_secret_by_name(
                              sm, call.host_project, call.secret_name,
                              IF call.decode = Unset
                              THEN "True" ELSE call.decode)]]
  /\ UNCHANGED <<trigger, gcs, bq, services>>

CallGetSecretJson ==
  /\ call' = [call EXCEPT !.read["get_secret_json"] =
                [done |-> TRUE, uri |-> "",
                 result |-> get_secret_json(sm, call.host_project,
                                            call.secret_name, call.decode)]]
  /\ UNCHANGED <<trigger, gcs, bq, services>>

CallGetSecret ==
  /\ call' = [call EXCEPT !.read["get_secret"] =
                [done |-> TRUE, uri |-> "",
                 result |-> get_secret(sm, call.host_project,
                                       call.secret_name, call.decode)]]
  /\ UNCHANGED <<trigger, gcs, bq, services>>

NextSecrets ==
  \/ AddSecretVersion
  \/ CallGetSecretByUri
  \/ CallGetSecretByName
  \/ CallGetSecretJson
  \/ CallGetSecret

SpecSecrets ==
  InitSecrets /\ [][NextSecrets]_vars

\* ------------------------------------------------------------ Pub/Sub
MaxPublished ==
  2

\* f"{value}": None is written as the text None.
format_value(v) ==
  IF v = Unset THEN "None" ELSE v

\* retrigger_self, lines 96-98
topic(env, proj_envar, topic_envar) ==
  "projects/" \o format_value(environ_get(env, proj_envar))
    \o "/topics/" \o format_value(environ_get(env, topic_envar))

\* The variables retrigger_self is pointed at, and what they may hold.
PubsubEnvirons ==
  {[n \in {"_GOOGLE_PROJECT", "_TRIGGER_TOPIC", "NEXT_PROJECT",
            "NEXT_TOPIC"} |->
      CASE n = "_GOOGLE_PROJECT" -> "my-project"
        [] n = "_TRIGGER_TOPIC" -> own
        [] n = "NEXT_PROJECT" -> proj
        [] n = "NEXT_TOPIC" -> "next-topic"] :
     own \in {Unset, "my-topic"}, proj \in {Unset, "next-project"}}

\* Payloads: texts, dicts, and a list (which is neither).
PubsubPayloads ==
  {PyStr(<<>>), PyStr(<<"a", "U+20AC", "\n">>),
   PyStr(<<"{", "\"", "k", "\"", "}">>),
   PyDict(<<>>),
   PyDict(<<Item(<<"k">>, PyStr(<<"a", "U+00E9", "\"">>))>>),
   PyDict(<<Item(<<"k">>, PyStr(<<"a">>)),
            Item(<<"l">>, PyDict(<<Item(<<"\n">>, PyStr(<<>>))>>))>>),
   PyList(<<PyStr(<<"a">>)>>)}

\* Mutation: a dict is sent as the text of its first key.
payload_text_no_dumps(payload) ==
  IF payload.t = "dict"
  THEN IF payload.items = <<>> THEN <<>> ELSE payload.items[1].k
  ELSE payload.s

\* send_pubsub, lines 60-61: a dict becomes its JSON text.
payload_text(payload) ==
  IF payload.t = "dict"
  THEN json_dumps(payload)
  ELSE payload.s

\* The caller of send_pubsub and retrigger_self between calls.
IdlePubsub ==
  [op |-> "none", pc |-> "idle", via |-> "none", topic_uri |-> "",
   payload |-> PyStr(<<>>), proj_envar |-> "", topic_envar |-> "",
   before |-> <<>>, exc |-> ""]

InitPubsub ==
  /\ InitTrigger(PubsubEnvirons, {NotFound})
  /\ gcs = NoGcs
  /\ bq = NoBq
  /\ sm = <<>>
  /\ topics = <<>>
  /\ http = <<>>
  /\ call = IdlePubsub

\* send_pubsub(topic_uri, payload)
CallSendPubsub ==
  /\ call.pc = "idle"
  /\ Len(topics) < MaxPublished
  /\ \E topic_uri \in {"projects/my-project/topics/my-topic",
                       "projects/next-project/topics/next-topic"},
        payload \in PubsubPayloads :
       call' = [IdlePubsub EXCEPT
                  !.op = "send_pubsub", !.pc = "L57", !.via = "send_pubsub",
                  !.topic_uri = topic_uri, !.payload = payload,
                  !.before = topics]
  /\ UNCHANGED <<trigger, gcs, bq, services>>

\* retrigger_self(payload, proj_envar, topic_envar)
CallRetriggerSelf ==
  /\ call.pc = "idle"
  /\ Len(topics) < MaxPublished
  /\ \E payload \in PubsubPayloads,
        envars \in {<<"_GOOGLE_PROJECT", "_TRIGGER_TOPIC">>,
                    <<"NEXT_PROJECT", "NEXT_TOPIC">>} :
       call' = [IdlePubsub EXCEPT
                  !.op = "retrigger_self", !.pc = "L95",
                  !.via = "retrigger_self", !.payload = payload,
                  !.proj_envar = envars[1], !.topic_envar = envars[2],
                  !.before = topics]
  /\ UNCHANGED <<trigger, gcs, bq, services>>

\* retrigger_self, lines 95-99: the topic is formatted from the two
\* environment variables and send_pubsub is called with it.
RetriggerSelf ==
  /\ call.pc = "L95"
  /\ call' = [call EXCEPT
                !.op = "send_pubsub", !.pc = "L57",
                !.topic_uri = topic(environ, call.proj_envar,
                                    call.topic_envar)]
  /\ UNCHANGED <<trigger, gcs, bq, services>>

\* send_pubsub, lines 57-65: a payload that is neither dict nor str has
\* no encode (AttributeError); otherwise one message is handed to
\* publisher.publish.
SendPubsub ==
  /\ call.pc = "L57"
  /\ IF call.payload.t \in {"dict", "str"}
     THEN /\ topics' = Append(topics,
                              [topic |-> call.topic_uri,
                               data |-> str_encode(
                                          payload_text(call.payload))])
          /\ call' = [call EXCEPT !.pc = "done"]
     ELSE /\ call' = [call EXCEPT !.pc = "done", !.exc = "AttributeError"]
          /\ UNCHANGED topics
  /\ UNCHANGED <<trigger, gcs, bq, sm, http>>

\* The call has returned or raised; the caller goes on.
ReturnPubsub ==
  /\ call.pc = "done"
  /\ call' = IdlePubsub
  /\ UNCHANGED <<trigger, gcs, bq, services>>

NextPubsub ==
  \/ CallSendPubsub
  \/ CallRetriggerSelf
  \/ RetriggerSelf
  \/ SendPubsub
  \/ ReturnPubsub

SpecPubsub ==
  InitPubsub /\ [][NextPubsub]_vars

\* -------------------------------------------------------------- Slack
\* message.py, line 14
SLACK_MAX_TEXT_LENGTH ==
  3000 - 35

MaxBlocks ==
  3

\* A text of n characters whose character at SLACK_MAX_TEXT_LENGTH and
\* whose characters after it differ from those before.
Text(n) ==
  [i \in 1..n |->
     IF i < SLACK_MAX_TEXT_LENGTH THEN "a"
     ELSE IF i = SLACK_MAX_TEXT_LENGTH THEN "b"
     ELSE "c"]

\* Texts around the limit, the empty text included.
SlackTexts ==
  {Text(n) : n \in {0, 1, SLACK_MAX_TEXT_LENGTH - 1, SLACK_MAX_TEXT_LENGTH,
                    SLACK_MAX_TEXT_LENGTH + 1, SLACK_MAX_TEXT_LENGTH + 4,
                    3001}}

\* blocks: lists of up to MaxBlocks texts.
SlackBlocks ==
  UNION {[1..n -> {Text(1), <<"b">>, Text(SLACK_MAX_TEXT_LENGTH + 1)}] :
           n \in 0..MaxBlocks}

\* Mutation: the cut is one character late.
truncate_late(text) ==
  IF Len(text) > SLACK_MAX_TEXT_LENGTH + 1
  THEN SubSeq(text, 1, SLACK_MAX_TEXT_LENGTH + 1) \o <<"\n", ".", ".", ".">>
  ELSE text

\* send_message, lines 50-51 and 74-75: text[:SLACK_MAX_TEXT_LENGTH]
\* followed by "\n..." for a text longer than the limit.
truncate(text) ==
  IF Len(text) > SLACK_MAX_TEXT_LENGTH
  THEN SubSeq(text, 1, SLACK_MAX_TEXT_LENGTH) \o <<"\n", ".", ".", ".">>
  ELSE text

\* {"type": "section", "text": {"type": "mrkdwn", "text": text}}
Section(text) ==
  [type |-> "section", text |-> [type |-> "mrkdwn", text |-> text]]

\* {"type": "divider"}
Divider ==
  [type |-> "divider", text |-> [type |-> "", text |-> <<>>]]

\* send_message, lines 73-80: the loop over blocks.
RECURSIVE attachment_blocks(_, _)
attachment_blocks(blocks, dividers) ==
  IF blocks = <<>>
  THEN <<>>
  ELSE <<Section(truncate(Head(blocks)))>>
       \o (IF dividers THEN <<Divider>> ELSE <<>>)
       \o attachment_blocks(Tail(blocks), dividers)

\* Python truth of an optional str or list: None and the empty one are
\* false.
IsTrue(opt) ==
  opt.some /\ opt.val # <<>>

\* send_message, lines 52-62 and 64-72: the message around the
\* attachment's blocks.
Message(title, color, blocks) ==
  [blocks |-> <<Section(title)>>,
   attachments |-> <<[color |-> color, blocks |-> blocks]>>]

\* Mutation: a call without text and blocks posts an empty attachment.
build_message_no_raise(title, text, color, blocks, dividers) ==
  LET c == IF color = Unset \/ color = "" THEN "#000000" ELSE color IN
    IF IsTrue(text)
    THEN [exc |-> "",
          msg |-> Message(title, c, <<Section(truncate(text.val))>>)]
    ELSE [exc |-> "",
          msg |-> Message(title, c,
                          attachment_blocks(blocks.val, dividers))]

\* send_message, lines 47-83
build_message(title, text, color, blocks, dividers) ==
  LET c == IF color = Unset \/ color = "" THEN "#000000" ELSE color IN
    IF IsTrue(text)
    THEN [exc |-> "",
          msg |-> Message(title, c, <<Section(truncate(text.val))>>)]
    ELSE IF IsTrue(blocks)
    THEN [exc |-> "",
          msg |-> Message(title, c,
                          attachment_blocks(blocks.val, dividers))]
    ELSE [exc |-> "Exception", msg |-> Message(<<>>, "", <<>>)]

\* The caller of send_message before the call.
IdleSlack ==
  [op |-> "none", pc |-> "idle", webhook |-> HookUrl, title |-> <<>>,
   text |-> None, color |-> Unset, blocks |-> None, dividers |-> FALSE,
   msg |-> Message(<<>>, "", <<>>), status |-> "", exc |-> ""]

InitSlack ==
  /\ InitTrigger({DeployedEnviron}, {NotFound})
  /\ gcs = NoGcs
  /\ bq = NoBq
  /\ sm = <<>>
  /\ topics = <<>>
  /\ http = <<>>
  /\ call = IdleSlack

\* send_message(webhook, title, text, color, blocks, dividers)
CallSendMessage ==
  /\ call.pc = "idle"
  /\ \E title \in {Text(1), Text(3001)},
        text \in {None} \cup {Some(t) : t \in SlackTexts},
        color \in {Unset, "#ff0000"},
        blocks \in {None} \cup {Some(b) : b \in SlackBlocks},
        dividers \in BOOLEAN :
       call' = [IdleSlack EXCEPT
                  !.op = "send_message", !.pc = "L47",
                  !.title = title, !.text = text, !.color = color,
                  !.blocks = blocks, !.dividers = dividers]
  /\ UNCHANGED <<trigger, gcs, bq, services>>

\* lines 47-83: the message is built, or the call raises.
BuildMessage ==
  /\ call.pc = "L47"
  /\ LET r == build_message(call.title, call.text, call.color, call.blocks,
                            call.dividers)
     IN call' = [call EXCEPT
                   !.pc = IF r.exc = "" THEN "L84" ELSE "done",
                   !.msg = r.msg,
                   !.exc = r.exc]
  /\ UNCHANGED <<trigger, gcs, bq, services>>

\* lines 84-86: requests.post(webhook, json=msg), then raise_for_status
\* on the response.
PostMessage ==
  /\ call.pc = "L84"
  /\ \E r \in HttpResults :
       /\ http' = Append(http, [url |-> call.webhook, json |-> call.msg])
       /\ call' = [call EXCEPT
                     !.pc = "done",
                     !.status = r,
                     !.exc = IF r = "200" THEN "" ELSE r]
  /\ UNCHANGED <<trigger, gcs, bq, sm, topics>>

NextSlack ==
  \/ CallSendMessage
  \/ BuildMessage
  \/ PostMessage

SpecSlack ==
  InitSlack /\ [][NextSlack]_vars

\* ------------------------------------------------------- Slack alerts
\* The variables a caller may name as proj_envar.
ProjEnvars ==
  {"_GOOGLE_PROJECT", "GCP_PROJECT"}

AlertEnvirons ==
  {[n \in ProjEnvars \cup {"K_SERVICE", "FUNCTION_NAME"} |->
      CASE n = "_GOOGLE_PROJECT" -> google
        [] n = "GCP_PROJECT" -> gcp
        [] n = "K_SERVICE" -> service
        [] n = "FUNCTION_NAME" -> Unset] :
     google \in {Unset, "my-project"}, gcp \in {Unset, "other-project"},
     service \in {Unset, "my-function"}}

\* send_cf_fail_alert(currenttime, eventtime, webhook, proj_envar), lines
\* 55-72: the parameter proj_envar is not read; the project in the text
\* and in the logs link is os.environ.get("_GOOGLE_PROJECT").
send_cf_fail_alert(currenttime, etime, hook, proj_envar, env) ==
  FailAlert(currenttime, etime, hook, env)

\* send_cf_error(message, webhook, proj_envar), lines 103-110
send_cf_error(message, hook, proj_envar, env) ==
  [webhook |-> hook,
   cfname |-> get_cfname(env),
   project |-> environ_get(env, proj_envar),
   text |-> message,
   color |-> "#ff0000"]

\* The caller of the alert functions before the call.
IdleAlert ==
  [op |-> "none", pc |-> "idle", proj_envar |-> "_GOOGLE_PROJECT",
   currenttime |-> NoDatetime, eventtime |-> NoDatetime, message |-> "",
   status |-> "", exc |-> ""]

InitAlert ==
  /\ InitTrigger(AlertEnvirons, {NotFound})
  /\ gcs = NoGcs
  /\ bq = NoBq
  /\ sm = <<>>
  /\ topics = <<>>
  /\ http = <<>>
  /\ call = IdleAlert

\* send_cf_fail_alert(currenttime, eventtime, webhook, proj_envar)
CallSendCfFailAlert ==
  /\ call.pc = "idle"
  /\ \E now \in 0..MaxTime, ts \in Timestamps, proj_envar \in ProjEnvars :
       /\ parse(ts).ok
       /\ call' = [IdleAlert EXCEPT
                     !.op = "send_cf_fail_alert", !.pc = "L55",
                     !.currenttime = UtcNow(now),
                     !.eventtime = parse(ts).dt,
                     !.proj_envar = proj_envar]
  /\ UNCHANGED <<trigger, gcs, bq, services>>

\* send_cf_error(message, webhook, proj_envar)
CallSendCfError ==
  /\ call.pc = "idle"
  /\ \E message \in {"Invalid input!", "x"}, proj_envar \in ProjEnvars :
       call' = [IdleAlert EXCEPT
                  !.op = "send_cf_error", !.pc = "L103",
                  !.message = message, !.proj_envar = proj_envar]
  /\ UNCHANGED <<trigger, gcs, bq, services>>

\* send_cf_fail_alert, lines 55-73: the alert is built and send_message
\* posts it, raising for a failed post.
SendCfFailAlert ==
  /\ call.pc = "L55"
  /\ \E r \in HttpResults :
       /\ http' = Append(http,
                         send_cf_fail_alert(call.currenttime, call.eventtime,
                                            HookUrl, call.proj_envar,
                                            environ))
       /\ call' = [call EXCEPT
                     !.pc = "done", !.status = r,
                     !.exc = IF r = "200" THEN "" ELSE r]
  /\ UNCHANGED <<trigger, gcs, bq, sm, topics>>

\* send_cf_error, lines 103-111
SendCfError ==
  /\ call.pc = "L103"
  /\ \E r \in HttpResults :
       /\ http' = Append(http,
                         send_cf_error(call.message, HookUrl,
                                       call.proj_envar, environ))
       /\ call' = [call EXCEPT
                     !.pc = "done", !.status = r,
                     !.exc = IF r = "200" THEN "" ELSE r]
  /\ UNCHANGED <<trigger, gcs, bq, sm, topics>>

NextAlert ==
  \/ CallSendCfFailAlert
  \/ CallSendCfError
  \/ SendCfFailAlert
  \/ SendCfError

SpecAlert ==
  InitAlert /\ [][NextAlert]_vars

\* ------------------------------------------------------------ claims
\* The instant the trigger timestamp names.
TriggerInstant ==
  context.wall - context.offset

\* now - trigger_timestamp, now being the clock reading the decision used.
Elapsed ==
  lapsed_at - TriggerInstant

\* The call has ended and its timestamp was well formed.
Decided ==
  pc = "done" /\ context.form = "aware"

\* The call has computed the lapsed time it compares (past line 166).
PastLine166 ==
  \/ pc \in {"L168", "L175", "L178", "L180", "L193", "L198"}
  \/ Decided

\* C1: whenever now - trigger_timestamp <= timeout_secs, the boundary
\* included, the call takes the Proceed path: it never raises TimeoutError
\* and sends no alert, and it returns to the caller whenever the payload is
\* absent or decodable.
C1_WithinTimeoutProceeds ==
  (Decided /\ Elapsed <= timeout_secs) =>
     /\ outcome.exc # "TimeoutError"
     /\ posted = <<>>
     /\ (~HasPayload(event) \/ DecodePayload(event.data).ok)
           => outcome.kind = "return"

C1_Witness ==
  Decided /\ Elapsed = timeout_secs /\ outcome.kind = "return"

\* C2: whenever now - trigger_timestamp > timeout_secs the call ends in
\* Abort (TimeoutError), and the elapsed time the Abort reports, the
\* threshold plus the excess over it, is that difference.
C2_ExceededAborts ==
  (Decided /\ Elapsed > timeout_secs) =>
     /\ outcome.kind = "raise"
     /\ outcome.exc = "TimeoutError"
     /\ lapsed = Elapsed
     /\ outcome.threshold = timeout_secs
     /\ outcome.threshold + outcome.exceeded = Elapsed

C2_Witness ==
  /\ Decided
  /\ outcome.exc = "TimeoutError"
  /\ context.offset # 0
  /\ outcome.exceeded = 2

\* C3: a failure while fetching the secret, reading the webhook from it or
\* posting the alert is logged and absorbed: the call ends in the Abort it
\* ends in when the notification succeeds.
C3_NotificationFailureAbsorbed ==
  /\ errors # <<>> => pc \in {"L193", "done"}
  /\ (pc = "done" /\ errors # <<>>) =>
        outcome = RaiseTimeoutError(timeout_secs, Elapsed)

C3_Witness ==
  /\ pc = "done"
  /\ posted # <<>>
  /\ errors = <<"Could not send fail alert to Slack">>
  /\ outcome.exc = "TimeoutError"

\* C4 as stated: an evaluation whose elapsed time exceeds the timeout
\* completes without raising.
C4_TimeoutReturnedNotThrown ==
  (Decided /\ Elapsed > timeout_secs) => outcome.kind # "raise"

\* C4 amended: exceeding the timeout is reported by raising TimeoutError;
\* the call returns a value only when the elapsed time is within the
\* timeout.
C4_TimeoutIsRaised ==
  /\ (Decided /\ Elapsed > timeout_secs) =>
        (outcome.kind = "raise" /\ outcome.exc = "TimeoutError")
  /\ (pc = "done" /\ outcome.kind = "return") =>
        (context.form = "aware" /\ Elapsed <= timeout_secs)

C4_Witness ==
  /\ Decided
  /\ Elapsed > timeout_secs
  /\ ~notify_slack
  /\ outcome.kind = "raise"

\* C5 as stated: with a well-formed timestamp no exception reaches the
\* caller, whatever the payload.
C5_OnlyMalformedTimestampRaises ==
  (pc = "done" /\ outcome.kind = "raise") => context.form # "aware"

\* C5 amended: the exceptions that reach the caller are the error of a
\* timestamp that is malformed or has no timezone, TimeoutError when the
\* timeout is exceeded, and the decoding error of a payload that is not
\* valid base64 or UTF-8 on the Proceed path; a notification failure never
\* reaches the caller.
C5_PropagatedExceptions ==
  (pc = "done" /\ outcome.kind = "raise") =>
     \/ outcome.exc = "ParserError" /\ context.form = "malformed"
     \/ outcome.exc = "TypeError" /\ context.form = "naive"
     \/ /\ outcome.exc = "TimeoutError"
        /\ context.form = "aware"
        /\ Elapsed > timeout_secs
     \/ /\ outcome.exc \in {"binascii.Error", "UnicodeDecodeError"}
        /\ context.form = "aware"
        /\ Elapsed <= timeout_secs
        /\ HasPayload(event)
        /\ ~DecodePayload(event.data).ok

C5_Witness ==
  /\ pc = "done"
  /\ outcome.exc = "UnicodeDecodeError"
  /\ context.form = "aware"

\* C6: on the Proceed path a call without payload (no event, or an event
\* without 'data') returns None and never the empty string; the empty
\* string is returned only for a payload that is present and decodes to
\* nothing.
C6_AbsentIsNone ==
  (pc = "done" /\ outcome.kind = "return") =>
     /\ ~HasPayload(event) => outcome.value = None
     /\ outcome.value = Some(<<>>) =>
          /\ HasPayload(event)
          /\ b64decode(event.data) = [ok |-> TRUE, bytes |-> <<>>]

C6_Witness ==
  /\ pc = "done"
  /\ outcome.kind = "return"
  /\ event = EventWithoutData
  /\ outcome.value = None

\* C7: on the Proceed path the call returns a string if and only if the
\* event is passed and has a payload, and that string is the payload
\* decoded from base64 to UTF-8: the base64 of the UTF-8 bytes of a string
\* yields that string.
C7_DecodedIffPresent ==
  (pc = "done" /\ outcome.kind = "return") =>
     /\ outcome.value.some <=> HasPayload(event)
     /\ \A str \in SampleStrings :
          (HasPayload(event) /\ event.data = b64encode(utf8_encode(str)))
             => outcome.value = Some(str)
     /\ HasPayload(event) =>
          DecodePayload(b64encode(utf8_encode(outcome.value.val))).val
             = outcome.value.val

C7_Witness ==
  /\ pc = "done"
  /\ event = EventWith(<<48, 58, 36, PAD>>)
  /\ outcome = Return(Some(<<233>>))

\* C8 as stated: the elapsed time the guard compares is
\* max(0, now - trigger_timestamp), never negative.
C8_ElapsedClamped ==
  PastLine166 => lapsed = (IF Elapsed < 0 THEN 0 ELSE Elapsed)

\* C8 amended: the elapsed time the guard compares is the signed
\* difference now - trigger_timestamp; it is negative when now is earlier
\* than the trigger timestamp and is not clamped to zero.
C8_ElapsedIsSigned ==
  PastLine166 => lapsed = Elapsed

C8_Witness ==
  pc = "L168" /\ lapsed < 0

\* C9: with timeout_secs >= 0, a call whose clock reading is earlier than
\* the trigger timestamp never aborts, fetches no secret and posts no
\* alert; it ends as a call with zero elapsed time ends, in the payload
\* result.
C9_SkewNeverAborts ==
  (PastLine166 /\ timeout_secs >= 0 /\ Elapsed < 0) =>
     /\ pc \in {"L168", "L198", "done"}
     /\ fetches = 0
     /\ posted = <<>>
     /\ pc = "done" => outcome = PayloadResult(event)

C9_Witness ==
  /\ Decided
  /\ timeout_secs >= 0
  /\ Elapsed < 0
  /\ notify_slack
  /\ outcome.kind = "return"

\* C10: a redelivery of the same event that reads the same current time
\* ends as the previous delivery ended, whatever happened to the
\* environment in between, and no step of a call changes the environment
\* variables or the secret a later call reads.
C10_Idempotent ==
  /\ [](pc = "done" /\ attempt.has /\ attempt.at = lapsed_at
          => outcome = attempt.outcome)
  /\ [][pc' # pc => UNCHANGED world]_vars

C10_Witness ==
  /\ pc = "done"
  /\ attempt.has
  /\ attempt.at = lapsed_at
  /\ attempt.outcome.exc = "TimeoutError"
  /\ errors # <<>>

\* C11: a failure notification is attempted only when the timeout has been
\* exceeded and notify_slack is true: a call that fetched the secret or
\* posted an alert has a lapsed time over the timeout and notify_slack set,
\* and a call that ends on the Proceed path, or runs with notify_slack
\* false, has fetched no secret and posted no alert.
C11_NotifyOnlyOnTimeoutAndEnabled ==
  /\ (fetches > 0 \/ posted # <<>>) =>
        /\ notify_slack
        /\ context.form = "aware"
        /\ Elapsed > timeout_secs
  /\ (pc = "done" /\ (outcome.exc # "TimeoutError" \/ ~notify_slack)) =>
        /\ fetches = 0
        /\ posted = <<>>

C11_Witness ==
  /\ pc = "done"
  /\ notify_slack
  /\ Elapsed > timeout_secs
  /\ fetches = 1
  /\ Len(posted) = 1
  /\ outcome.exc = "TimeoutError"

\* C13: across the redeliveries of one event the lapsed time a delivery
\* computes is never below the one the previous delivery computed, and a
\* delivery that follows one that raised TimeoutError raises TimeoutError
\* too.
C13_ElapsedGrowsAbortPersists ==
  (Decided /\ attempt.has) =>
     /\ lapsed_at >= attempt.at
     /\ lapsed >= attempt.at - TriggerInstant
     /\ attempt.outcome.exc = "TimeoutError" => outcome.exc = "TimeoutError"

C13_Witness ==
  /\ Decided
  /\ attempt.has
  /\ lapsed_at > attempt.at
  /\ attempt.outcome.exc = "TimeoutError"
  /\ outcome.exc = "TimeoutError"
  /\ outcome.exceeded > attempt.outcome.exceeded

\* The position of a line in the one pass process_trigger makes.
Rank(p) ==
  CASE p = "idle" -> 0
    [] p = "L163" -> 1
    [] p = "L164" -> 2
    [] p = "L166" -> 3
    [] p = "L168" -> 4
    [] p = "L175" -> 5
    [] p = "L178" -> 6
    [] p = "L180" -> 7
    [] p = "L193" -> 8
    [] p = "L198" -> 8
    [] p = "done" -> 9

\* C15: a call decides once and does nothing twice: it fetches the secret
\* at most once and posts at most one alert, also when the post fails; a
\* call on a well-formed timestamp ends either by raising TimeoutError or
\* with the payload result, as the one comparison it made says; and no
\* step of a call goes back to an earlier line.
C15_SingleDecision ==
  /\ [](/\ fetches <= 1
        /\ Len(posted) <= 1
        /\ Len(errors) <= 1
        /\ pc = "done" => outcome.kind \in {"return", "raise"}
        /\ Decided =>
              IF TimeoutExceeded(lapsed, timeout_secs)
              THEN outcome = RaiseTimeoutError(timeout_secs, lapsed)
              ELSE outcome = PayloadResult(event)
                   /\ outcome.exc # "TimeoutError")
  /\ [][(pc' # pc /\ pc \notin {"idle", "done"}) => Rank(pc') > Rank(pc)]_vars

C15_Witness ==
  /\ pc = "done"
  /\ fetches = 1
  /\ Len(posted) = 1
  /\ errors = <<"Could not send fail alert to Slack">>
  /\ outcome.exc = "TimeoutError"

\* C12: an event with a well-formed trigger timestamp that the runtime
\* keeps redelivering while the clock advances is eventually answered with
\* TimeoutError, whatever the timeout.
C12_RetriesEndInAbort ==
  (pc # "idle" /\ context.form = "aware")
     ~> (pc = "done" /\ outcome.exc = "TimeoutError")

C12_Witness ==
  /\ pc = "done"
  /\ context.form = "aware"
  /\ attempt.has
  /\ attempt.outcome.kind = "return"
  /\ outcome.exc = "TimeoutError"
  /\ timeout_secs = MaxTimeout

\* C14: of two calls for different events, interleaved in any way, each
\* ends as it would have ended alone with its own timestamp, clock reading,
\* payload and timeout, and no step of one call changes anything the other
\* call holds.
C14_Independent ==
  /\ [](pc = "done" =>
          outcome = Evaluate(context, lapsed_at, event, timeout_secs))
  /\ [](peer.pc = "done" =>
          peer.outcome = Evaluate(peer.context, peer.lapsed_at, peer.event,
                                  peer.timeout_secs))
  /\ [][peer' # peer => (peer' = Frame /\ Frame' = peer)]_vars

C14_Witness ==
  /\ pc = "done"
  /\ peer.pc = "done"
  /\ context # peer.context
  /\ event # peer.event
  /\ peer.utctime.wall < utctime.wall
  /\ peer.lapsed_at > lapsed_at
  /\ outcome.kind = "return"
  /\ peer.outcome.exc = "TimeoutError"
  /\ peer.posted # <<>>

\* C16: read_gcs_nldjson on a blob that write_gcs_nldjson has just written
\* returns, without error, the list of the items that were written, in
\* their order: the empty list, strings with newlines or commas, and a
\* single dict, which comes back as a list of one item.
C16_NldRoundTrip ==
  (call.op = "read_gcs_nldjson" /\ call.pc = "done" /\ call.wrote) =>
     /\ call.exc = ""
     /\ call.result = AsList(call.json_data)

C16_Witness ==
  /\ call.op = "read_gcs_nldjson"
  /\ call.pc = "done"
  /\ call.wrote
  /\ call.json_data.t = "list"
  /\ Len(call.result.items) = 2
  /\ call.result.items[1] = PyDict(<<Item(<<"k">>, PyStr(<<"a", "\n", ",">>))>>)
  /\ call.result.items[2] = PyDict(<<>>)

\* The requests a call has sent for the destination table.
DestLog ==
  SelectSeq(call.log, LAMBDA request : request[2] = "dest")

\* C17: a create_and_upload call that got past the schema check, with no
\* load job failing, and found the destination table there ends with
\* Conflict and without a load job when already_created_ok is false, and
\* submits the load job without Conflict when it is true; a call that found
\* no table creates it and then submits the load job.
C17_ExistingTableHandling ==
  (call.op = "create_and_upload" /\ call.pc = "done"
     /\ call.exc \notin {"Exception", "SystemError"}) =>
       IF call.existed
       THEN IF ~call.already_created_ok
            THEN call.exc = "Conflict" /\ DestLog = <<>>
            ELSE call.exc # "Conflict" /\ DestLog = <<<<"load", "dest">>>>
       ELSE DestLog = <<<<"create_table", "dest">>, <<"load", "dest">>>>

\* C18: create_and_upload raises its schema error exactly when schema_json
\* is empty or None and autodetect_schema and generate_schema are both
\* false, and it raises it before it has sent any request: no table was
\* created and no load job submitted.
C18_SchemaValidation ==
  (call.op = "create_and_upload" /\ call.pc = "done") =>
     /\ call.exc = "Exception" <=>
          (/\ call.schema_json \in {Unset, "[]"}
           /\ ~call.autodetect_schema
           /\ ~call.generate_schema)
     /\ call.exc = "Exception" =>
          (call.log = <<>> /\ bq.tables = call.before)

C18_Witness ==
  /\ call.op = "create_and_upload"
  /\ call.pc = "done"
  /\ call.exc = "Exception"
  /\ call.schema_json = "[]"
  /\ ~call.existed
  /\ ~bq.tables["dest"].exists

\* C19: create_table takes HOUR, DAY, MONTH and YEAR in any capitalization
\* as the partitioning interval, and a table created with any other
\* interval and no partitioning field is the table that would have been
\* created without an interval: it has no time partitioning.
C19_UnrecognizedIntervalIgnored ==
  (call.op = "create_table" /\ call.pc = "done" /\ call.exc = ""
     /\ Truthy(call.time_partitioning_interval)) =>
       IF upper(call.time_partitioning_interval)
            \in {"HOUR", "DAY", "MONTH", "YEAR"}
       THEN bq.tables["dest"].time_partitioning.type_
              = upper(call.time_partitioning_interval)
       ELSE call.time_partitioning_field = Unset =>
              /\ bq.tables["dest"] = NewTable(call.schema_json, Unset, Unset)
              /\ ~bq.tables["dest"].time_partitioning.set

\* C20: when a create_and_upload call with generate_schema has ended, the
\* temporary table is not in the dataset.
C20_TempTableRemoved ==
  (call.op = "create_and_upload" /\ call.generate_schema
     /\ call.pc = "done") =>
       ~bq.tables[TempTable].exists

\* C21: write_gcs on a bucket that is not there raises NotFound and leaves
\* no bucket and no blob when create_bucket_if_not_found is false; when it
\* is true the bucket is there before the blob is uploaded, and a call
\* that returned has written the blob into it.  read_gcs after a write_gcs
\* that returned gives back the string that was written.
C21_BucketNotFoundAndReadBack ==
  /\ (call.op = "write_gcs" /\ call.pc = "done" /\ ~call.existed
        /\ ~call.create_bucket_if_not_found) =>
          (call.exc = "NotFound" /\ gcs = NoGcs)
  /\ (call.op = "write_gcs" /\ call.pc = "L185") => gcs.bucket
  /\ (call.op = "write_gcs" /\ call.pc = "done" /\ call.exc = "") =>
          /\ gcs.bucket
          /\ gcs.blob = [has |-> TRUE, text |-> str_encode(call.data)]
  /\ (call.op = "write_gcs" /\ call.pc = "done" /\ call.exc # "") =>
          ~gcs.blob.has \/ gcs.blob = OldBlob
  /\ (call.op = "read_gcs" /\ call.pc = "done" /\ call.wrote) =>
          (call.exc = "" /\ call.json_nld = call.data)

C21_Witness ==
  /\ call.op = "read_gcs"
  /\ call.pc = "done"
  /\ call.wrote
  /\ ~call.existed
  /\ call.create_bucket_if_not_found
  /\ call.json_nld = <<"a", "U+20AC", "U+00E9", "\n">>
  /\ Len(gcs.blob.text) = 7

\* C22: after an upload_gcs_json call whose load job completed, the table
\* holds the rows it held before followed by the rows of the blob when
\* append is set, and only the rows of the blob when it is not; a call
\* whose job did not complete leaves the rows as they were.
C22_WriteDisposition ==
  (call.op = "upload_gcs_json" /\ call.pc = "done") =>
    /\ (call.job = "DONE" /\ call.append) =>
         bq.tables[call.table].loads =
           call.before[call.table].loads \o <<"blob">>
    /\ (call.job = "DONE" /\ ~call.append) =>
         bq.tables[call.table].loads = <<"blob">>
    /\ call.job # "DONE" => bq.tables = call.before

\* The second call of a run appended the rows of the blob to the rows an
\* earlier load had left in the table.
C22_Witness ==
  /\ call.op = "upload_gcs_json"
  /\ call.pc = "done"
  /\ call.job = "DONE"
  /\ call.append
  /\ call.n = 2
  /\ call.before["dest"].loads = <<"blob">>
  /\ bq.tables["dest"].loads = <<"blob", "blob">>

\* C23: read from the same store with the same arguments,
\* get_secret_by_name(project, name) gives what get_secret_by_uri gives
\* for 'projects/{project}/secrets/{name}/versions/latest', get_secret
\* gives what get_secret_json gives, and get_secret_json called without
\* keyword arguments gives the JSON parse of the text get_secret_by_name
\* returns (or raises what get_secret_by_name or the parse raises).
C23_AccessorsAgree ==
  call.op = "secrets" =>
    LET by_uri == call.read["get_secret_by_uri"]
        by_name == call.read["get_secret_by_name"]
        as_json == call.read["get_secret_json"]
        alias == call.read["get_secret"]
    IN
    /\ ( /\ by_uri.done
         /\ by_name.done
         /\ by_uri.uri = "projects/" \o call.host_project \o "/secrets/"
                           \o call.secret_name \o "/versions/latest" )
         => by_name.result = by_uri.result
    /\ (alias.done /\ as_json.done) => alias.result = as_json.result
    /\ (as_json.done /\ by_name.done /\ call.decode = Unset) =>
         IF by_name.result.exc # ""
         THEN as_json.result = by_name.result
         ELSE LET parsed == json_decode(by_name.result.val.s) IN
              IF parsed.ok
              THEN as_json.result = Returned(parsed.val)
              ELSE as_json.result = Raised("JSONDecodeError")

\* All four accessors read a secret that holds a JSON object with a
\* character outside ASCII, while the first version holds something else.
C23_Witness ==
  /\ call.op = "secrets"
  /\ call.decode = Unset
  /\ \A a \in SecretAccessors : call.read[a].done
  /\ call.read["get_secret_by_uri"].uri =
       secret_uri(call.host_project, call.secret_name)
  /\ call.read["get_secret"].result =
       Returned(PyDict(<<Item(<<"k">>, PyStr(<<"U+00E9">>))>>))
  /\ call.read["get_secret_by_name"].result =
       Returned(PyStr(<<"{", "\"", "k", "\"", ":", "\"", "U+00E9", "\"",
                        "}">>))
  /\ sm["projects/p/secrets/s/versions/1"] # sm[secret_uri("p", "s")]

\* C24: a send_pubsub call with a str or dict payload publishes exactly
\* one message, whose data is the UTF-8 encoding of the str, or of the
\* JSON text of the dict; retrigger_self publishes that message to
\* 'projects/{value of proj_envar}/topics/{value of topic_envar}'; a call
\* in progress, or one that raised, has published nothing.
C24_OneMessagePerCall ==
  call.op \in {"send_pubsub", "retrigger_self"} =>
    /\ (call.pc = "done" /\ call.exc = "") =>
         /\ Len(topics) = Len(call.before) + 1
         /\ SubSeq(topics, 1, Len(call.before)) = call.before
         /\ topics[Len(topics)].data =
              IF call.payload.t = "str"
              THEN str_encode(call.payload.s)
              ELSE str_encode(json_dumps(call.payload))
         /\ call.payload.t \in {"str", "dict"}
         /\ call.via = "send_pubsub" =>
              topics[Len(topics)].topic = call.topic_uri
         /\ call.via = "retrigger_self" =>
              topics[Len(topics)].topic =
                "projects/" \o format_value(environ[call.proj_envar])
                  \o "/topics/" \o format_value(environ[call.topic_envar])
    /\ (call.pc # "done" \/ call.exc # "") => topics = call.before

\* retrigger_self, pointed at its own variables, published a dict with a
\* character outside ASCII as its escaped JSON text.
C24_Witness ==
  /\ call.via = "retrigger_self"
  /\ call.pc = "done"
  /\ call.proj_envar = "NEXT_PROJECT"
  /\ Len(topics) = 2
  /\ topics[2] =
       [topic |-> "projects/next-project/topics/next-topic",
        data |-> str_encode(<<"{", "\"", "k", "\"", ":", " ", "\"", "a",
                              "\\", "u", "0", "0", "e", "9", "\\", "\"",
                              "\"", "}">>)]

\* What the attachment of the posted message holds.
PostedBlocks ==
  http[1].json.attachments[1].blocks

\* C25: a send_message call that was passed neither a non-empty text nor
\* a non-empty blocks list raises and posts nothing; a call that was
\* passed one makes exactly one post, to the webhook, and a response
\* with a non-success status is raised to the caller.
C25_TextOrBlocksRequired ==
  call.op = "send_message" =>
    /\ Len(http) <= 1
    /\ call.pc # "done" => http = <<>>
    /\ (call.pc = "done" /\ ~IsTrue(call.text) /\ ~IsTrue(call.blocks)) =>
         (call.exc = "Exception" /\ http = <<>>)
    /\ (call.pc = "done" /\ (IsTrue(call.text) \/ IsTrue(call.blocks))) =>
         /\ Len(http) = 1
         /\ http[1].url = call.webhook
         /\ call.status = "HTTPError" => call.exc = "HTTPError"
         /\ call.status = "200" => call.exc = ""

\* A call with an empty text and three blocks made its one post and the
\* webhook answered with an error status.
C25_Witness ==
  /\ call.op = "send_message"
  /\ call.pc = "done"
  /\ call.text = Some(<<>>)
  /\ call.blocks.some
  /\ Len(call.blocks.val) = 3
  /\ Len(http) = 1
  /\ call.exc = "HTTPError"

\* C26: with blocks and dividers=True the attachment holds the blocks in
\* input order with one divider between each two consecutive blocks and
\* none after the last (n blocks, n-1 dividers); with dividers=False it
\* holds the blocks and no divider.
C26_DividersBetweenBlocks ==
  ( /\ call.op = "send_message"
    /\ call.pc = "done"
    /\ ~IsTrue(call.text)
    /\ call.blocks.some
    /\ Len(call.blocks.val) >= 2 ) =>
    LET n == Len(call.blocks.val) IN
      IF call.dividers
      THEN /\ Len(PostedBlocks) = 2 * n - 1
           /\ \A i \in 1..n :
                PostedBlocks[2 * i - 1] = Section(truncate(call.blocks.val[i]))
           /\ \A i \in 1..(n - 1) : PostedBlocks[2 * i] = Divider
      ELSE /\ Len(PostedBlocks) = n
           /\ \A i \in 1..n :
                PostedBlocks[i] = Section(truncate(call.blocks.val[i]))

\* C28: every section text in the attachment of the posted message is at
\* most SLACK_MAX_TEXT_LENGTH + 4 = 2969 characters long: the text (or a
\* block) longer than 2965 characters is sent as its first 2965
\* characters followed by "\n...", a shorter one as it is.
C28_SectionTextBounded ==
  (call.op = "send_message" /\ call.pc = "done" /\ http # <<>>) =>
    LET inputs == IF IsTrue(call.text)
                  THEN <<call.text.val>>
                  ELSE call.blocks.val
        sections == SelectSeq(PostedBlocks, LAMBDA b : b.type = "section")
    IN
    /\ SLACK_MAX_TEXT_LENGTH + 4 = 2969
    /\ Len(sections) = Len(inputs)
    /\ \A i \in 1..Len(sections) :
         /\ Len(sections[i].text.text) <= 2969
         /\ Len(inputs[i]) <= 2965 => sections[i].text.text = inputs[i]
         /\ Len(inputs[i]) > 2965 =>
              sections[i].text.text =
                SubSeq(inputs[i], 1, 2965) \o <<"\n", ".", ".", ".">>

\* A text of 2966 characters was posted as 2969, and the blocks passed
\* next to it were left out.
C28_Witness ==
  /\ call.op = "send_message"
  /\ call.pc = "done"
  /\ call.text.some
  /\ Len(call.text.val) = 2966
  /\ Len(http) = 1
  /\ Len(PostedBlocks) = 1
  /\ Len(PostedBlocks[1].text.text) = 2969
  /\ PostedBlocks[1].text.text[2965] = "b"
  /\ PostedBlocks[1].text.text[2966] = "\n"

\* C27: the project in the message send_cf_fail_alert posts is the value
\* of the environment variable its proj_envar parameter names, as it is
\* in the message send_cf_error posts.
C27_ProjectFromProjEnvar ==
  ( /\ call.op \in {"send_cf_fail_alert", "send_cf_error"}
    /\ call.pc = "done" ) =>
    http[1].project = environ_get(environ, call.proj_envar)

\* C29: the alert a call posted names the instants its decision used: the
\* current time in it is the clock reading the compared lapsed time was
\* computed from, the trigger time in it is the parsed context.timestamp,
\* and the time range between the two is exactly that lapsed time.
C29_AlertReportsDecisionInstants ==
  posted # <<>> =>
    LET alert == posted[Len(posted)] IN
      /\ alert.ctimestamp = strftime(UtcNow(lapsed_at))
      /\ alert.etimestamp = strftime(parse(context).dt)
      /\ alert.ctimestamp - alert.etimestamp = lapsed

\* C30: write_gcs_nldjson leaves the caller's json_data as it was when
\* add_date is not set; with add_date it sets 'upload_date' to today's
\* date in every item of the caller's data; and the caller's data after
\* the call equals what read_gcs_nldjson returns for the written blob.
C30_CallerDataEqualsReadBack ==
  LET before == AsList(call.original).items
      after == AsList(call.json_data).items
  IN
  /\ ( /\ call.op \in {"write_gcs_nldjson", "read_gcs_nldjson"}
       /\ call.pc # "L234"
       /\ ~call.add_date ) => call.json_data = call.original
  /\ ( /\ call.op \in {"write_gcs_nldjson", "read_gcs_nldjson"}
       /\ call.pc # "L234"
       /\ call.add_date ) =>
       /\ Len(after) = Len(before)
       /\ \A i \in 1..Len(after) :
            \E j \in 1..Len(after[i].items) :
              after[i].items[j] = Item(UploadDate, PyStr(Today))
  /\ (call.op = "read_gcs_nldjson" /\ call.pc = "done" /\ call.wrote) =>
       call.result = call.json_data

\* C30 (amended): write_gcs_nldjson leaves the caller's json_data as it
\* was when add_date is not set; with add_date every item of the caller's
\* data has 'upload_date' set to today's date, its other keys as they
\* were; and read_gcs_nldjson returns, for the written blob, the caller's
\* list, or the one-item list of the caller's dict when json_data was a
\* single dict.
C30_CallerDataInPlace ==
  LET before == AsList(call.original).items
      after == AsList(call.json_data).items
  IN
  /\ ( /\ call.op \in {"write_gcs_nldjson", "read_gcs_nldjson"}
       /\ call.pc # "L234"
       /\ ~call.add_date ) => call.json_data = call.original
  /\ ( /\ call.op \in {"write_gcs_nldjson", "read_gcs_nldjson"}
       /\ call.pc # "L234"
       /\ call.add_date ) =>
       /\ call.json_data.t = call.original.t
       /\ Len(after) = Len(before)
       /\ \A i \in 1..Len(after) :
            /\ \E j \in 1..Len(after[i].items) :
                 after[i].items[j] = Item(UploadDate, PyStr(Today))
            /\ SelectSeq(after[i].items, LAMBDA it : it.k # UploadDate)
                 = SelectSeq(before[i].items, LAMBDA it : it.k # UploadDate)
  /\ (call.op = "read_gcs_nldjson" /\ call.pc = "done" /\ call.wrote) =>
       /\ call.exc = ""
       /\ call.result = IF call.json_data.t = "dict"
                        THEN PyList(<<call.json_data>>)
                        ELSE call.json_data

\* A single dict was written with add_date and read back: the caller's
\* dict now carries the date, and the blob gave a list of that one dict.
C30_Witness ==
  /\ call.op = "read_gcs_nldjson"
  /\ call.pc = "done"
  /\ call.wrote
  /\ call.add_date
  /\ call.original = PyDict(<<Item(<<"k">>, PyStr(<<"U+00E9">>))>>)
  /\ call.json_data = PyDict(<<Item(<<"k">>, PyStr(<<"U+00E9">>)),
                               Item(UploadDate, PyStr(Today))>>)
  /\ call.result = PyList(<<call.json_data>>)


====
